---------------------------- MODULE Spec2Model ----------------------------
(***************************************************************************)
(* Connection orchestration of the TikTok chat reader:                     *)
(*   ConnectionManager  (services/connection.manager.ts)                   *)
(*   TikTokService      (services/tiktok.service.ts, connector backend)    *)
(*   EulerService       (services/euler.service.ts, raw WebSocket backend) *)
(*   cleanUsername / isValidUsername / parseError (utils/sanitize.ts)      *)
(*                                                                         *)
(* One action of the model is one turn of the JavaScript event loop: the   *)
(* synchronous code of a call or callback together with every promise      *)
(* continuation it makes runnable.  Pending promises (the connector        *)
(* library's connect, the room-info fetch, the WebSocket handshake) are    *)
(* settled by the environment in later turns.                              *)
(***************************************************************************)
EXTENDS Integers, Sequences, FiniteSets, TLC

VARIABLES
  state,            \* ConnectionManager.state (ConnectionState)
  connectLock,      \* ConnectionManager.connectLock
  abortController,  \* ConnectionManager.abortController: "null" | "active" | "aborted"
  call,             \* per caller: the frame of its ConnectionManager.connect call
  tk,               \* TikTokService fields
  conn,             \* the WebcastPushConnection objects created so far
  tkRace,           \* the pending Promise.race of TikTokService.connect (0: none)
  eu,               \* EulerService fields
  sock,             \* the WebSocket objects created so far
  euFetch,          \* the pending fetch of EulerService.fetchRoomInfo
  out,              \* what the last turn did, in order: broadcasts, backend calls, returns
  attempt,          \* facts about the connect call in flight, kept for one turn after its end
  fallbackEnabled,  \* config.connection.fallbackEnabled
  san,              \* the sanitize functions applied to a pair of inputs
  clients,          \* WebSocketService.clients, in insertion order
  broken,           \* the browser sockets whose send() throws
  held,             \* the objects a caller got from two calls of a getter
  notified,         \* per connection object that can still raise callbacks: the
                    \* disconnected notifications broadcast for it
  legacy            \* the self-reconnecting TikTokService: its fields, the connection
                    \* objects it created and its timers

vars == <<state, connectLock, abortController, call, tk, conn, tkRace, eu, sock,
          euFetch, out, attempt, fallbackEnabled, san, clients, broken, held, notified,
          legacy>>

-----------------------------------------------------------------------------
(* Bounds *)

\* Number of connect calls that pass validation (each creates at most one
\* connection object and one socket).
MaxAttempts == 2

\* Length of the free part of the strings the sanitize functions are tried on.
MaxLen == 3

\* How many events the backends' counters take up.
MaxEvents == 2

-----------------------------------------------------------------------------
(* Strings are sequences of one-character strings. *)

MaxUsernameLen == 50

LowerChars == {"a", "b"}
UpperChars == {"A", "B"}
OtherWordChars == {"7", "_", "."}
Whitespace == {" "}
Alphabet == LowerChars \cup UpperChars \cup OtherWordChars \cup Whitespace \cup {"@", "!"}

\* The character class [a-zA-Z0-9_.] of isValidUsername.
ValidChars == LowerChars \cup UpperChars \cup OtherWordChars

toLowerCaseChar(c) ==
  CASE c = "A" -> "a"
    [] c = "B" -> "b"
    [] OTHER -> c

toLowerCase(s) == [i \in 1..Len(s) |-> toLowerCaseChar(s[i])]

\* String.prototype.replace(/^@/, ""): removes one "@" at position 0.
replaceLeadingAt(s) == IF Len(s) > 0 /\ s[1] = "@" THEN Tail(s) ELSE s

RECURSIVE trimStart(_)
trimStart(s) ==
  IF Len(s) > 0 /\ s[1] \in Whitespace THEN trimStart(Tail(s)) ELSE s

RECURSIVE trimEnd(_)
trimEnd(s) ==
  IF Len(s) > 0 /\ s[Len(s)] \in Whitespace
  THEN trimEnd(SubSeq(s, 1, Len(s) - 1))
  ELSE s

trim(s) == trimEnd(trimStart(s))

\* String.prototype.includes
Contains(s, sub) ==
  \E i \in 0..(Len(s) - Len(sub)) : SubSeq(s, i + 1, i + Len(sub)) = sub

\* username.replace(/^@/, "").trim().toLowerCase()
cleanUsername(username) == toLowerCase(trim(replaceLeadingAt(username)))

isValidUsername(username) ==
  LET cleaned == cleanUsername(username)
  IN IF Len(cleaned) = 0 \/ Len(cleaned) > MaxUsernameLen
     THEN FALSE
     ELSE \A i \in 1..Len(cleaned) : cleaned[i] \in ValidChars

\* Thrown values: an Error object with a message, or some other value.
Err(msg) == [kind |-> "Error", message |-> msg]
NonError == [kind |-> "other", message |-> <<>>]

parseError(err) ==
  CASE err.kind = "string" -> err.message
    [] err.kind = "Error" -> err.message
    [] OTHER -> <<"Unknown error">>

\* Optional values: null, or a present value.
NULL == <<>>
Some(x) == <<x>>


-----------------------------------------------------------------------------
(* Values *)

Callers == {"c1", "c2"}
ConnectionTypes == {"connector", "euler", "auto"}
ConnIds == 1..MaxAttempts
SockIds == 1..MaxAttempts

\* DEFAULT_STATS of the manager; both services' defaultStats() return the same.
DEFAULT_STATS ==
  [viewerCount |-> 0, likeCount |-> 0, totalLikes |-> 0, diamondsCount |-> 0,
   giftCount |-> 0, chatCount |-> 0, followerCount |-> 0, shareCount |-> 0,
   joinCount |-> 0, connectedSince |-> "null", uniqueId |-> NULL]

Tk_defaultStats == DEFAULT_STATS

Eu_defaultStats == DEFAULT_STATS

createDefaultState ==
  [type |-> "auto", activeMethod |-> "null", status |-> "disconnected",
   uniqueId |-> NULL, connectedSince |-> "null", failureReason |-> NULL,
   fallbackUsed |-> FALSE]

\* new Date().toISOString(): some non-null timestamp.
Now == "ts"

\* JavaScript truthiness of an optional string.
Truthy(opt) == opt # NULL /\ Len(opt[1]) > 0

NoError == Err(<<>>)

IdleFrame == [pc |-> "idle", type |-> "auto", cleaned |-> <<>>, connectorError |-> NoError]

NoAttempt ==
  [n |-> 0, caller |-> "c1", type |-> "auto", valid |-> FALSE,
   connectorCalls |-> 0, eulerCalls |-> 0,
   connectorResult |-> "none", connectorReason |-> <<>>,
   eulerResult |-> "none", eulerReason |-> <<>>,
   disconnected |-> FALSE, connectedAtCall |-> FALSE,
   result |-> "none", error |-> <<>>]

NoRace == [conn |-> 0, caller |-> "c1"]
NoFetch == [st |-> "none", caller |-> "c1", uniqueId |-> <<>>]

\* A WebcastPushConnection that was not created yet, and one that raises no
\* further events.
UnusedConn == [st |-> "unused", uniqueId |-> <<>>]
ClosedConn == [st |-> "closed", uniqueId |-> <<>>]

\* A WebSocket that was not created yet, and one that raises no further events.
UnusedSock == [readyState |-> "unused", promise |-> "none", timer |-> FALSE,
               caller |-> "c1", uniqueId |-> <<>>]
ClosedSock == [readyState |-> "closed", promise |-> "none", timer |-> FALSE,
               caller |-> "c1", uniqueId |-> <<>>]

\* The program state as one value; ret carries a call's outcome within a turn,
\* libThrows whether the library's disconnect() throws in this turn.
World ==
  [state |-> state, connectLock |-> connectLock, abortController |-> abortController,
   call |-> call, tk |-> tk, conn |-> conn, tkRace |-> tkRace, eu |-> eu,
   sock |-> sock, euFetch |-> euFetch, out |-> <<>>,
   attempt |-> IF attempt.result = "pending"
               THEN attempt
               ELSE [NoAttempt EXCEPT !.n = attempt.n],
   ret |-> [st |-> "none", err |-> NoError],
   libThrows |-> FALSE,
   clients |-> clients, broken |-> broken, held |-> held]

\* The disconnected notifications of TikTokService in the trace o.
ConnectorDisconnecteds(o) ==
  {i \in 1..Len(o) : /\ o[i].kind = "broadcast"
                     /\ o[i].name = "disconnected"
                     /\ o[i].data.method = "connector"}

\* The connection object a turn's notifications are about: the one whose
\* streamEnd or disconnected callback runs, else the one TikTokService held at
\* the start of the turn (0: none).
ConnectionOf(o) ==
  IF Len(o) > 0 /\ o[1].kind = "event"
       /\ o[1].name \in {"tiktok.disconnected", "tiktok.streamEnd"}
  THEN o[1].data
  ELSE tk.connection

Commit(w) ==
  /\ state' = w.state
  /\ connectLock' = w.connectLock
  /\ abortController' = w.abortController
  /\ call' = w.call
  /\ tk' = w.tk
  /\ conn' = w.conn
  /\ tkRace' = w.tkRace
  /\ eu' = w.eu
  /\ sock' = w.sock
  /\ euFetch' = w.euFetch
  /\ out' = w.out
  /\ attempt' = w.attempt
  /\ clients' = w.clients
  /\ broken' = w.broken
  /\ held' = w.held
  /\ notified' = [id \in ConnIds |->
                    IF w.conn[id].st \in {"unused", "closed"} THEN 0
                    ELSE IF id = ConnectionOf(w.out)
                    THEN notified[id] + Cardinality(ConnectorDisconnecteds(w.out))
                    ELSE notified[id]]
  /\ UNCHANGED <<fallbackEnabled, san, legacy>>

Log(w, kind, name, data) ==
  [w EXCEPT !.out = Append(@, [kind |-> kind, name |-> name, data |-> data])]

\* Faulty variant: a send() that throws ends the broadcast, which raises.
broadcast_raises(w, event, data) ==
  LET w1 == Log(w, "broadcast", event, data)
      thrown == {i \in 1..Len(w.clients) : w.clients[i] \in w.broken}
      last == IF thrown = {}
              THEN Len(w.clients)
              ELSE CHOOSE i \in thrown : \A j \in thrown : i <= j
      sends == [i \in 1..last |-> [kind |-> "send", name |-> event, data |-> w.clients[i]]]
      w2 == [w1 EXCEPT !.out = @ \o sends]
  IN IF thrown = {} THEN w2 ELSE Log(w2, "raise", event, w.clients[last])

\* WebSocketService.broadcast(event, data): send() is called on every client,
\* and the clients whose send() threw are deleted afterwards.
broadcast(w, event, data) ==
  LET w1 == Log(w, "broadcast", event, data)
      sends == [i \in 1..Len(w.clients) |->
                  [kind |-> "send", name |-> event, data |-> w.clients[i]]]
      deadClients == {w.clients[i] : i \in {j \in 1..Len(w.clients) : w.clients[j] \in w.broken}}
      alive(client) == client \notin deadClients
  IN [w1 EXCEPT !.out = @ \o sends, !.clients = SelectSeq(@, alive)]

\* WebSocketService.addClient and removeClient.
addClient(w, client) ==
  IF \E i \in 1..Len(w.clients) : w.clients[i] = client
  THEN w
  ELSE [w EXCEPT !.clients = Append(@, client)]

removeClient(w, client) ==
  LET other(c) == c # client
  IN [w EXCEPT !.clients = SelectSeq(@, other)]

Returned(w, st, err) == [w EXCEPT !.ret = [st |-> st, err |-> err]]

\* Faulty variant: the object itself is returned.
copy_same(ref, obj) == [ref |-> ref, val |-> obj]

\* { ...obj }: a new object with the fields of obj, the object that ref names.
copy(ref, obj) == [ref |-> "new", val |-> obj]

\* obj[field] = value by a caller that holds the object ref names: a new object
\* is the caller's own, and the frozen DEFAULT_STATS takes no assignment.
assign(w, ref, field, value) ==
  CASE ref = "tk.stats" -> [w EXCEPT !.tk.stats[field] = value]
    [] ref = "eu.stats" -> [w EXCEPT !.eu.stats[field] = value]
    [] ref = "state" -> [w EXCEPT !.state[field] = value]
    [] OTHER -> w

-----------------------------------------------------------------------------
(* TikTokService *)

\* connection.disconnect() of the library: an established connection is closed;
\* one still connecting is left to settle.
Lib_disconnect(c) ==
  IF c.st \in {"live", "ending"} THEN ClosedConn ELSE c

\* The try / catch around connection.disconnect(): a disconnect() that throws
\* leaves the connection as it is and is logged.
tryLibDisconnect(w, id) ==
  IF w.libThrows
  THEN Log(w, "log", "warn", <<"Disconnect error: ">>)
  ELSE [w EXCEPT !.conn[id] = Lib_disconnect(@)]

disconnectInternal(w) ==
  LET id == w.tk.connection
      w1 == IF id # 0
            THEN [tryLibDisconnect(w, id) EXCEPT !.tk.connection = 0]
            ELSE w
      wasConnected == w.tk.connected
      w2 == [w1 EXCEPT !.tk.connected = FALSE]
      w3 == IF wasConnected /\ Truthy(w.tk.currentUniqueId)
            THEN broadcast(w2, "disconnected",
                           [method |-> "connector", uniqueId |-> w.tk.currentUniqueId])
            ELSE w2
  IN [w3 EXCEPT !.tk.currentUniqueId = NULL, !.tk.stats = Tk_defaultStats]

Tk_disconnect(w) == disconnectInternal(Log(w, "call", "tiktok.disconnect", <<>>))

Tk_isConnected(w) == w.tk.connected

Tk_getStats(w) == w.tk.stats

\* getStats() as the object it returns.
Tk_getStatsObject(w) == copy("tk.stats", w.tk.stats)

NewConnId(w) == Cardinality({i \in ConnIds : w.conn[i].st # "unused"}) + 1

\* TikTokService.connect up to its await of Promise.race.
Tk_connect(w0, caller, uniqueId) ==
  LET w == Log(w0, "call", "tiktok.connect", uniqueId)
  IN IF w.tk.connectLock
     THEN Returned(w, "throw", Err(<<"Connection already in progress">>))
     ELSE LET w1 == [w EXCEPT !.tk.connectLock = TRUE]
              w2 == IF w1.tk.connected THEN disconnectInternal(w1) ELSE w1
              cleaned == cleanUsername(uniqueId)
              id == NewConnId(w2)
          IN IF Len(cleaned) = 0
             THEN Returned([w2 EXCEPT !.tk.connectLock = FALSE],
                           "throw", Err(<<"Invalid username">>))
             ELSE Returned(
                    [w2 EXCEPT !.tk.stats = [Tk_defaultStats EXCEPT !.uniqueId = Some(cleaned)],
                               !.tk.currentUniqueId = Some(cleaned),
                               !.tk.connection = id,
                               !.conn[id] = [st |-> "connecting", uniqueId |-> cleaned],
                               !.tkRace = [conn |-> id, caller |-> caller]],
                    "pending", NoError)

\* TikTokService.connect after the race resolved.
Tk_connectResolved(w) ==
  LET cleaned == w.conn[w.tkRace.conn].uniqueId
      w1 == [w EXCEPT !.tk.connected = TRUE,
                      !.tk.stats.connectedSince = Now,
                      !.tkRace = NoRace]
      w2 == broadcast(w1, "connected", [uniqueId |-> cleaned, method |-> "connector"])
  IN Returned([w2 EXCEPT !.tk.connectLock = FALSE], "ok", NoError)

\* Faulty variant: the rejection leaves the adapter's lock taken.
Tk_connectRejected_keepsLock(w, err) ==
  Returned([w EXCEPT !.tkRace = NoRace], "throw", err)

\* TikTokService.connect after the race rejected.
Tk_connectRejected(w, err) ==
  Returned([w EXCEPT !.tk.connectLock = FALSE, !.tkRace = NoRace],
           "throw", err)

\* Faulty variant: the adapter notifies but stays connected.
handleDisconnect_staysConnected(w, uniqueId, reason) ==
  broadcast(w, "disconnected",
            [uniqueId |-> uniqueId, reason |-> reason, method |-> "connector"])

handleDisconnect(w, uniqueId, reason) ==
  broadcast([w EXCEPT !.tk.connected = FALSE, !.tk.connection = 0],
            "disconnected",
            [uniqueId |-> uniqueId, reason |-> reason, method |-> "connector"])

\* x || d for a number x: 0 (and a missing field, read as 0 here) gives d.
OrDefault(x, d) == IF x = 0 THEN d ELSE x

\* The handlers that registerEvents puts on the library's connection. A gift is
\* [giftType, repeatEnd, diamondCount, repeatCount], a like [likeCount,
\* totalLikeCount].
Tk_onChat(w) ==
  broadcast([w EXCEPT !.tk.stats.chatCount = @ + 1], "chat", [type |-> "chat"])

\* Faulty variant: the diamonds of a gift are counted once whatever its repeatCount.
Tk_onGift_once(w, data) ==
  IF data.giftType = 1 /\ ~data.repeatEnd
  THEN w
  ELSE broadcast([w EXCEPT !.tk.stats.giftCount = @ + 1,
                           !.tk.stats.diamondsCount = @ + OrDefault(data.diamondCount, 0)],
                 "gift",
                 [type |-> "gift",
                  diamondCount |-> OrDefault(data.diamondCount, 0),
                  repeatCount |-> OrDefault(data.repeatCount, 1),
                  repeatEnd |-> TRUE,
                  giftType |-> OrDefault(data.giftType, 1)])

Tk_onGift(w, data) ==
  IF data.giftType = 1 /\ ~data.repeatEnd
  THEN w
  ELSE broadcast([w EXCEPT !.tk.stats.giftCount = @ + 1,
                           !.tk.stats.diamondsCount =
                             @ + OrDefault(data.diamondCount, 0) * OrDefault(data.repeatCount, 1)],
                 "gift",
                 [type |-> "gift",
                  diamondCount |-> OrDefault(data.diamondCount, 0),
                  repeatCount |-> OrDefault(data.repeatCount, 1),
                  repeatEnd |-> TRUE,
                  giftType |-> OrDefault(data.giftType, 1)])

Tk_onLike(w, data) ==
  LET totalLikes == w.tk.stats.totalLikes + OrDefault(data.likeCount, 1)
  IN broadcast([w EXCEPT !.tk.stats.totalLikes = totalLikes,
                         !.tk.stats.likeCount = OrDefault(data.totalLikeCount, totalLikes)],
               "like",
               [type |-> "like",
                likeCount |-> OrDefault(data.likeCount, 1),
                totalLikeCount |-> OrDefault(data.totalLikeCount, 0)])

Tk_onMember(w) ==
  broadcast([w EXCEPT !.tk.stats.joinCount = @ + 1], "member", [type |-> "member"])

\* Faulty variant: a roomUser event adds to viewerCount.
Tk_onRoomUser_adds(w, viewerCount) ==
  broadcast([w EXCEPT !.tk.stats.viewerCount = @ + OrDefault(viewerCount, 0)],
            "roomUser", [type |-> "roomUser", viewerCount |-> OrDefault(viewerCount, 0)])

\* The social handler looks for "follow", then for "share", inside displayType.
Tk_onSocial(w, displayType) ==
  IF Contains(displayType, <<"follow">>)
  THEN broadcast([w EXCEPT !.tk.stats.followerCount = @ + 1], "follow", [type |-> "follow"])
  ELSE IF Contains(displayType, <<"share">>)
  THEN broadcast([w EXCEPT !.tk.stats.shareCount = @ + 1], "share", [type |-> "share"])
  ELSE w

Tk_onRoomUser(w, viewerCount) ==
  broadcast([w EXCEPT !.tk.stats.viewerCount = OrDefault(viewerCount, 0)],
            "roomUser", [type |-> "roomUser", viewerCount |-> OrDefault(viewerCount, 0)])

-----------------------------------------------------------------------------
(* EulerService *)

\* Faulty variant: the heartbeat timer is never cleared.
stopHeartbeat_never(w) == w

stopHeartbeat(w) == [w EXCEPT !.eu.heartbeatInterval = FALSE]

\* The callback of the heartbeat's setInterval: a frame is sent on the socket
\* held if that socket is open, and a send() that throws is caught and logged.
heartbeat(w, sendThrows) ==
  IF w.eu.ws # 0 /\ w.sock[w.eu.ws].readyState = "open"
  THEN IF sendThrows
       THEN Log(w, "log", "Heartbeat send failed", w.eu.ws)
       ELSE Log(w, "frame", "hb", w.eu.ws)
  ELSE w

startHeartbeat(w) == [stopHeartbeat(w) EXCEPT !.eu.heartbeatInterval = TRUE]

\* WebSocket.close(): starts the closing handshake of a socket that is not
\* closing yet; one still connecting is aborted.
Ws_close(s) ==
  CASE s.readyState = "connecting" -> [s EXCEPT !.readyState = "aborting"]
    [] s.readyState = "open" -> [s EXCEPT !.readyState = "closing"]
    [] OTHER -> s

cleanup(w) ==
  LET w1 == stopHeartbeat([w EXCEPT !.eu.connected = FALSE])
      w2 == IF w1.eu.abortController = "active"
            THEN [w1 EXCEPT !.eu.abortController = "null",
                            !.euFetch.st = IF @ = "pending" THEN "aborted" ELSE @]
            ELSE w1
      w3 == IF w2.eu.ws # 0
            THEN [w2 EXCEPT !.sock[w2.eu.ws] = Ws_close(@), !.eu.ws = 0]
            ELSE w2
  IN [w3 EXCEPT !.eu.currentUniqueId = NULL, !.eu.stats = Eu_defaultStats]

\* Faulty variant: disconnect() without the check that there is something to end.
Eu_disconnectBody_noGuard(w) ==
  broadcast(cleanup(w), "disconnected", [method |-> "euler"])

Eu_disconnectBody(w) ==
  IF ~w.eu.connected /\ w.eu.ws = 0
  THEN w
  ELSE broadcast(cleanup(w), "disconnected", [method |-> "euler"])

Eu_disconnect(w) == Eu_disconnectBody(Log(w, "call", "euler.disconnect", <<>>))

\* Faulty variant: the close handler ends with disconnect() instead of cleanup().
onclose_disconnects(w, reason) ==
  LET w1 == IF w.eu.connected
            THEN broadcast([w EXCEPT !.eu.connected = FALSE], "disconnected",
                           [method |-> "euler",
                            reason |-> IF reason = "" THEN "Connection closed" ELSE reason])
            ELSE w
  IN Eu_disconnectBody(w1)

\* ws.onclose; reason is the close event's reason, "" when it has none.
onclose(w, reason) ==
  LET w1 == IF w.eu.connected
            THEN broadcast([w EXCEPT !.eu.connected = FALSE], "disconnected",
                           [method |-> "euler",
                            reason |-> IF reason = "" THEN "Connection closed" ELSE reason])
            ELSE w
  IN cleanup(w1)

Eu_isConnected(w) == w.eu.connected

Eu_getStats(w) == w.eu.stats

Eu_getStatsObject(w) == copy("eu.stats", w.eu.stats)

NewSockId(w) == Cardinality({i \in SockIds : w.sock[i].readyState # "unused"}) + 1

\* EulerService.connect up to its await of fetchRoomInfo (the fetch is sent).
Eu_connect(w0, caller, uniqueId) ==
  LET w == Log(w0, "call", "euler.connect", uniqueId)
      w1 == IF w.eu.connected THEN Eu_disconnectBody(w) ELSE w
  IN Returned(
       [w1 EXCEPT !.eu.currentUniqueId = Some(uniqueId),
                  !.eu.stats = [Eu_defaultStats EXCEPT !.uniqueId = Some(uniqueId)],
                  !.eu.abortController = "active",
                  !.euFetch = [st |-> "pending", caller |-> caller, uniqueId |-> uniqueId]],
       "pending", NoError)

\* Faulty variant: the catch block rethrows without cleanup().
Eu_connectCatch_noCleanup(w, err) == Returned(w, "throw", err)

\* The catch block of EulerService.connect.
Eu_connectCatch(w, err) == Returned(cleanup(w), "throw", err)

\* connectWebSocket: the socket is created and the open timeout armed.
connectWebSocket(w, caller, uniqueId) ==
  LET id == NewSockId(w)
  IN Returned(
       [w EXCEPT !.sock[id] = [readyState |-> "connecting", promise |-> "pending",
                               timer |-> TRUE, caller |-> caller, uniqueId |-> uniqueId],
                 !.eu.ws = id,
                 !.euFetch.st = "none"],
       "pending", NoError)

\* EulerService.connect after fetchRoomInfo returned: a room, or null.
Eu_afterFetch(w, found) ==
  IF found
  THEN connectWebSocket(w, w.euFetch.caller, w.euFetch.uniqueId)
  ELSE Eu_connectCatch([w EXCEPT !.euFetch.st = "none"],
                       Err(<<"Could not find live room for @">> \o w.euFetch.uniqueId))

\* EulerService.connect after connectWebSocket resolved.
Eu_connectResolved(w, uniqueId) ==
  LET w1 == [w EXCEPT !.eu.connected = TRUE, !.eu.stats.connectedSince = Now]
  IN Returned(broadcast(w1, "connected", [uniqueId |-> uniqueId, method |-> "euler"]),
              "ok", NoError)

\* Faulty variant: a gift is decoded without defaults for missing fields.
extractGiftData_asSent(data) ==
  [type |-> "gift",
   diamondCount |-> data.diamondCount,
   repeatCount |-> data.repeatCount,
   repeatEnd |-> TRUE,
   giftType |-> OrDefault(data.giftType, 1)]

\* extractGiftData, extractLikeData, extractSocialData on a decoded message
\* [type, giftType, repeatEnd, diamondCount, repeatCount, likeCount,
\*  totalLikeCount, displayType, viewerCount].
extractGiftData(data) ==
  [type |-> "gift",
   diamondCount |-> OrDefault(data.diamondCount, 0),
   repeatCount |-> OrDefault(data.repeatCount, 1),
   repeatEnd |-> TRUE,
   giftType |-> OrDefault(data.giftType, 1)]

extractLikeData(data) ==
  [type |-> "like",
   likeCount |-> OrDefault(data.likeCount, 1),
   totalLikeCount |-> OrDefault(data.totalLikeCount, 0)]

extractSocialData(data) == [type |-> "social", displayType |-> data.displayType]

\* Faulty variant: every control message counts as the end of the stream.
controlAction_alwaysEnd(data) == 3

\* data.action || data.status || 3 of a control message.
controlAction(data) == OrDefault(OrDefault(data.action, data.status), 3)

\* Faulty variant: a message that names no type is read as a chat message.
MsgType_orChat(data) ==
  IF data.type # "" THEN data.type
  ELSE IF data.method # "" THEN data.method
  ELSE IF data.msg_type # "" THEN data.msg_type
  ELSE "chat"

\* data.type || data.method || data.msg_type; a missing field reads as "".
MsgType(data) ==
  IF data.type # "" THEN data.type
  ELSE IF data.method # "" THEN data.method
  ELSE data.msg_type

\* EulerService.handleMessage on a decoded message.
handleMessage(w, data) ==
  CASE MsgType(data) \in {"WebcastChatMessage", "chat"} ->
         broadcast([w EXCEPT !.eu.stats.chatCount = @ + 1], "chat", [type |-> "chat"])
    [] MsgType(data) \in {"WebcastGiftMessage", "gift"} ->
         LET giftData == extractGiftData(data)
         IN broadcast([w EXCEPT !.eu.stats.giftCount = @ + 1,
                                !.eu.stats.diamondsCount =
                                  @ + giftData.diamondCount * giftData.repeatCount],
                      "gift", giftData)
    [] MsgType(data) \in {"WebcastLikeMessage", "like"} ->
         LET likeData == extractLikeData(data)
             totalLikes == w.eu.stats.totalLikes + OrDefault(likeData.likeCount, 1)
         IN broadcast([w EXCEPT !.eu.stats.totalLikes = totalLikes,
                                !.eu.stats.likeCount =
                                  OrDefault(likeData.totalLikeCount, totalLikes)],
                      "like", likeData)
    [] MsgType(data) \in {"WebcastMemberMessage", "member"} ->
         broadcast([w EXCEPT !.eu.stats.joinCount = @ + 1], "member", [type |-> "member"])
    [] MsgType(data) \in {"WebcastSocialMessage", "social"} ->
         LET socialData == extractSocialData(data)
         IN IF socialData.displayType = <<"follow">>
            THEN broadcast([w EXCEPT !.eu.stats.followerCount = @ + 1], "follow", socialData)
            ELSE IF socialData.displayType = <<"share">>
            THEN broadcast([w EXCEPT !.eu.stats.shareCount = @ + 1], "share", socialData)
            ELSE w
    [] MsgType(data) \in {"WebcastRoomUserSeqMessage", "roomUser"} ->
         broadcast([w EXCEPT !.eu.stats.viewerCount = OrDefault(data.viewerCount, 0)],
                   "roomUser",
                   [type |-> "roomUser", viewerCount |-> OrDefault(data.viewerCount, 0)])
    [] MsgType(data) \in {"WebcastControlMessage", "streamEnd"} ->
         LET action == controlAction(data)
         IN IF action = 3
            THEN Eu_disconnectBody(broadcast(w, "streamEnd",
                                             [type |-> "streamEnd", action |-> action]))
            ELSE w
    [] OTHER -> w

-----------------------------------------------------------------------------
(* ConnectionManager *)

\* The head of handleMessage on a raw frame [form, json]: a string, or a buffer
\* put through TextDecoder, goes to JSON.parse, which throws on malformed text
\* and otherwise gives a value; anything but a non-null object is dropped. An
\* array is an object without any of the fields read.
decode(raw) ==
  IF raw.form \notin {"string", "buffer"} THEN [ok |-> FALSE, data |-> raw.json.obj]
  ELSE IF raw.json.kind = "malformed" THEN [ok |-> FALSE, data |-> raw.json.obj]
  ELSE IF raw.json.kind \notin {"object", "array"} THEN [ok |-> FALSE, data |-> raw.json.obj]
  ELSE [ok |-> TRUE, data |-> raw.json.obj]

\* ws.onmessage: handleMessage inside try / catch.
onmessage(w, raw) ==
  LET decoded == decode(raw)
  IN IF decoded.ok THEN handleMessage(w, decoded.data) ELSE w

\* config.connection.defaultType when CONNECTION_TYPE is not set.
defaultType == "auto"

getStats(w) ==
  IF Tk_isConnected(w) THEN Tk_getStats(w)
  ELSE IF Eu_isConnected(w) THEN Eu_getStats(w)
  ELSE DEFAULT_STATS

isConnected(w) == Tk_isConnected(w) \/ Eu_isConnected(w)

getState(w) == w.state

\* getStats() and getState() of the manager as the objects they return.
getStatsObject(w) ==
  IF Tk_isConnected(w) THEN Tk_getStatsObject(w)
  ELSE IF Eu_isConnected(w) THEN Eu_getStatsObject(w)
  ELSE copy("DEFAULT_STATS", DEFAULT_STATS)

getStateObject(w) == copy("state", w.state)

broadcastState(w) == broadcast(w, "connectionState", w.state)

updateState(w, partial) == broadcastState([w EXCEPT !.state = partial @@ @])

\* fallbackUsed is "undefined", "true" or "false".
markConnected(w, method, fallbackUsed) ==
  LET base == [activeMethod |-> method, status |-> "connected",
               connectedSince |-> Now, failureReason |-> NULL]
  IN updateState(w, IF fallbackUsed = "undefined"
                    THEN base
                    ELSE [fallbackUsed |-> (fallbackUsed = "true")] @@ base)

\* Faulty variant: only the Euler backend is torn down.
disconnectAllQuietly_eulerOnly(w) == Eu_disconnect(w)

\* Faulty variant: no backend is torn down.
disconnectAllQuietly_none(w) == w

disconnectAllQuietly(w) == Eu_disconnect(Tk_disconnect(w))

\* Whether throwIfAborted() throws.
throwIfAborted(w) == w.abortController = "aborted"

Cancelled == Err(<<"Connection attempt was cancelled">>)

\* What the attempt record notes of a backend call and of its outcome.
NoteCall(w, backend) ==
  LET w1 == [w EXCEPT !.attempt.connectedAtCall = @ \/ isConnected(w)]
  IN IF backend = "connector"
     THEN [w1 EXCEPT !.attempt.connectorCalls = @ + 1]
     ELSE [w1 EXCEPT !.attempt.eulerCalls = @ + 1]

NoteOutcome(w, backend) ==
  LET res == IF w.ret.st = "ok" THEN "ok" ELSE "fail"
      why == IF w.ret.st = "ok" THEN <<>> ELSE parseError(w.ret.err)
  IN IF backend = "connector"
     THEN [w EXCEPT !.attempt.connectorResult = res, !.attempt.connectorReason = why]
     ELSE [w EXCEPT !.attempt.eulerResult = res, !.attempt.eulerReason = why]

\* connectViaConnector after tiktokService.connect settled (w.ret).
connectViaConnectorResume(w, c) ==
  IF w.ret.st = "ok"
  THEN Returned(markConnected(w, "connector", "undefined"), "ok", NoError)
  ELSE Returned(w, "throw",
                Err(<<"TikTok-Live-Connector failed: ">> \o parseError(w.ret.err)))

connectViaConnector(w, c, uniqueId) ==
  IF throwIfAborted(w)
  THEN connectViaConnectorResume(Returned(w, "throw", Cancelled), c)
  ELSE LET w1 == Tk_connect(NoteCall(w, "connector"), c, uniqueId)
       IN IF w1.ret.st = "pending"
          THEN [w1 EXCEPT !.call[c].pc = "awaitConnector"]
          ELSE connectViaConnectorResume(NoteOutcome(w1, "connector"), c)

\* connectViaEuler after eulerService.connect settled (w.ret).
connectViaEulerResume(w, c) ==
  IF w.ret.st = "ok"
  THEN Returned(markConnected(w, "euler", "undefined"), "ok", NoError)
  ELSE Returned(w, "throw",
                Err(<<"Euler WebSocket API failed: ">> \o parseError(w.ret.err)))

connectViaEuler(w, c, uniqueId) ==
  IF throwIfAborted(w)
  THEN connectViaEulerResume(Returned(w, "throw", Cancelled), c)
  ELSE LET w1 == Eu_connect(NoteCall(w, "euler"), c, uniqueId)
       IN IF w1.ret.st = "pending"
          THEN [w1 EXCEPT !.call[c].pc = "awaitEuler"]
          ELSE connectViaEulerResume(NoteOutcome(w1, "euler"), c)

\* Faulty variant: the fallback's success is marked without the fallbackUsed flag.
connectAutoAfterEuler_noFlag(w, c) ==
  IF w.ret.st = "ok"
  THEN Returned(
         broadcast(markConnected(w, "euler", "undefined"), "toast",
                   [message |-> "Connected via Euler fallback (TikTok-Live-Connector was unavailable)",
                    type |-> "warning"]),
         "ok", NoError)
  ELSE Returned(w, "throw",
                Err(<<"All connection methods failed. Connector: ">>
                    \o parseError(w.call[c].connectorError)
                    \o <<". Euler: ">> \o parseError(w.ret.err)))

\* Faulty variant: the combined error cites the Euler attempt only.
connectAutoAfterEuler_eulerOnly(w, c) ==
  IF w.ret.st = "ok"
  THEN Returned(
         broadcast(markConnected(w, "euler", "true"), "toast",
                   [message |-> "Connected via Euler fallback (TikTok-Live-Connector was unavailable)",
                    type |-> "warning"]),
         "ok", NoError)
  ELSE Returned(w, "throw",
                Err(<<"All connection methods failed. Euler: ">> \o parseError(w.ret.err)))

\* connectAuto after the fallback's eulerService.connect settled (w.ret).
connectAutoAfterEuler(w, c) ==
  IF w.ret.st = "ok"
  THEN Returned(
         broadcast(markConnected(w, "euler", "true"), "toast",
                   [message |-> "Connected via Euler fallback (TikTok-Live-Connector was unavailable)",
                    type |-> "warning"]),
         "ok", NoError)
  ELSE Returned(w, "throw",
                Err(<<"All connection methods failed. Connector: ">>
                    \o parseError(w.call[c].connectorError)
                    \o <<". Euler: ">> \o parseError(w.ret.err)))

\* Faulty variant: the fallback is tried whatever config.connection.fallbackEnabled says.
connectAutoFallback_always(w, c) ==
  IF throwIfAborted(w)
  THEN connectAutoAfterEuler(Returned(w, "throw", Cancelled), c)
  ELSE LET w1 == Eu_connect(NoteCall(w, "euler"), c, w.call[c].cleaned)
       IN IF w1.ret.st = "pending"
          THEN [w1 EXCEPT !.call[c].pc = "awaitEuler"]
          ELSE connectAutoAfterEuler(NoteOutcome(w1, "euler"), c)

\* connectAuto, attempt 2: the Euler fallback.
connectAutoFallback(w, c) ==
  IF ~fallbackEnabled
  THEN Returned(w, "throw",
                Err(<<"TikTok-Live-Connector failed and fallback is disabled. Reason: ">>
                    \o parseError(w.call[c].connectorError)))
  ELSE IF throwIfAborted(w)
  THEN connectAutoAfterEuler(Returned(w, "throw", Cancelled), c)
  ELSE LET w1 == Eu_connect(NoteCall(w, "euler"), c, w.call[c].cleaned)
       IN IF w1.ret.st = "pending"
          THEN [w1 EXCEPT !.call[c].pc = "awaitEuler"]
          ELSE connectAutoAfterEuler(NoteOutcome(w1, "euler"), c)

\* Faulty variant: the fallback is tried also after the connector succeeded.
connectAutoAfterConnector_alwaysFallsBack(w, c) ==
  connectAutoFallback([w EXCEPT !.call[c].connectorError = w.ret.err], c)

\* connectAuto after attempt 1's tiktokService.connect settled (w.ret).
connectAutoAfterConnector(w, c) ==
  IF w.ret.st = "ok"
  THEN Returned(markConnected(w, "connector", "false"), "ok", NoError)
  ELSE connectAutoFallback([w EXCEPT !.call[c].connectorError = w.ret.err], c)

connectAuto(w, c, uniqueId) ==
  IF throwIfAborted(w)
  THEN connectAutoAfterConnector(Returned(w, "throw", Cancelled), c)
  ELSE LET w1 == Tk_connect(NoteCall(w, "connector"), c, uniqueId)
       IN IF w1.ret.st = "pending"
          THEN [w1 EXCEPT !.call[c].pc = "awaitConnector"]
          ELSE connectAutoAfterConnector(NoteOutcome(w1, "connector"), c)

\* Faulty variant: the "euler" case falls through to the automatic strategy.
executeConnection_fallthrough(w, c, type, uniqueId) ==
  CASE type = "connector" -> connectViaConnector(w, c, uniqueId)
    [] OTHER -> connectAuto(w, c, uniqueId)

executeConnection(w, c, type, uniqueId) ==
  CASE type = "connector" -> connectViaConnector(w, c, uniqueId)
    [] type = "euler" -> connectViaEuler(w, c, uniqueId)
    [] OTHER -> connectAuto(w, c, uniqueId)

\* Faulty variant: the finally block leaves the lock taken.
connectFinally_keepsLock(w, c) ==
  [w EXCEPT !.abortController = "null", !.call[c] = IdleFrame]

\* The finally block of connect.
connectFinally(w, c) ==
  [w EXCEPT !.connectLock = FALSE, !.abortController = "null", !.call[c] = IdleFrame]

\* Faulty variant: the catch block publishes no failed state.
connectCatch_noState(w, c, err) ==
  LET w2 == connectFinally(w, c)
      w3 == Log(w2, "return", "connect",
                [caller |-> c, ok |-> FALSE, error |-> parseError(err)])
  IN [w3 EXCEPT !.attempt.result = "rejected", !.attempt.error = parseError(err)]

\* Faulty variant: the catch block sets status failed without a failureReason.
connectCatch_noReason(w, c, err) ==
  LET w1 == updateState(w, [status |-> "failed"])
      w2 == connectFinally(w1, c)
      w3 == Log(w2, "return", "connect",
                [caller |-> c, ok |-> FALSE, error |-> parseError(err)])
  IN [w3 EXCEPT !.attempt.result = "rejected", !.attempt.error = parseError(err)]

\* The catch block of connect, its finally block and the rejection.
connectCatch(w, c, err) ==
  LET w1 == updateState(w, [status |-> "failed", failureReason |-> Some(parseError(err))])
      w2 == connectFinally(w1, c)
      w3 == Log(w2, "return", "connect",
                [caller |-> c, ok |-> FALSE, error |-> parseError(err)])
  IN [w3 EXCEPT !.attempt.result = "rejected", !.attempt.error = parseError(err)]

\* connect running to its end without an exception.
connectReturn(w, c) ==
  LET w1 == connectFinally(w, c)
      w2 == Log(w1, "return", "connect", [caller |-> c, ok |-> TRUE, error |-> <<>>])
  IN [w2 EXCEPT !.attempt.result = "ok"]

\* connect after executeConnection ran as far as it can in this turn (w.ret).
connectSettle(w, c) ==
  CASE w.ret.st = "pending" -> w
    [] w.ret.st = "ok" -> connectReturn(w, c)
    [] OTHER -> connectCatch(w, c, w.ret.err)

AlreadyInProgress == <<"Connection attempt already in progress">>

InvalidUsernameError(uniqueId) ==
  Err(<<"Invalid TikTok username: \"">> \o uniqueId
      \o <<"\". Usernames may only contain letters, numbers, underscores and dots.">>)

\* Faulty variant: no single-flight check.
connectLockHeld_never(w) == FALSE

\* The single-flight check at the head of connect.
connectLockHeld(w) == w.connectLock

\* Faulty variant: the existing connection is torn down before the handle is validated.
connectInvalid_tearsDown(w, c, uniqueId) ==
  connectCatch(disconnectAllQuietly(w), c, InvalidUsernameError(uniqueId))

\* connect given a handle that isValidUsername refuses.
connectInvalid(w, c, uniqueId) == connectCatch(w, c, InvalidUsernameError(uniqueId))

\* ConnectionManager.connect, from the call to its first await or to its end.
connect(w0, c, uniqueId, connectionType) ==
  LET w == Log(w0, "call", "connect", [caller |-> c, uniqueId |-> uniqueId])
  IN IF connectLockHeld(w)
     THEN Log(w, "return", "connectRejectedByLock",
              [caller |-> c, ok |-> FALSE, error |-> AlreadyInProgress])
     ELSE
       LET cleaned == cleanUsername(uniqueId)
           type == IF connectionType = "undefined" THEN defaultType ELSE connectionType
           w1 == [w EXCEPT !.connectLock = TRUE,
                           !.abortController = "active",
                           !.call[c].pc = "running",
                           !.attempt = [NoAttempt EXCEPT
                                          !.n = w.attempt.n,
                                          !.caller = c,
                                          !.type = type,
                                          !.result = "pending"]]
       IN IF ~isValidUsername(cleaned)
          THEN connectInvalid(w1, c, uniqueId)
          ELSE
            LET w2 == disconnectAllQuietly(w1)
                w3 == updateState(w2,
                        [type |-> type, activeMethod |-> "null", status |-> "connecting",
                         uniqueId |-> Some(cleaned), connectedSince |-> "null",
                         failureReason |-> NULL, fallbackUsed |-> FALSE])
                w4 == [w3 EXCEPT !.call[c] = [pc |-> "running", type |-> type,
                                               cleaned |-> cleaned,
                                               connectorError |-> NoError],
                                 !.attempt.valid = TRUE,
                                 !.attempt.n = @ + 1]
            IN connectSettle(executeConnection(w4, c, type, cleaned), c)

\* connect resumed after the backend call it awaits settled (w.ret).
connectResume(w0, c) ==
  IF w0.ret.st = "pending"
  THEN w0
  ELSE
    LET type == w0.call[c].type
        pc == w0.call[c].pc
        w == NoteOutcome(w0, IF pc = "awaitConnector" THEN "connector" ELSE "euler")
        w1 == CASE type = "connector" -> connectViaConnectorResume(w, c)
                [] type = "euler" -> connectViaEulerResume(w, c)
                [] OTHER -> IF pc = "awaitConnector"
                            THEN connectAutoAfterConnector(w, c)
                            ELSE connectAutoAfterEuler(w, c)
    IN connectSettle(w1, c)

\* Faulty variant: only the connector backend is torn down.
disconnect_connectorOnly(w0) ==
  LET w == Log(w0, "call", "disconnect", <<>>)
      w1 == IF w.abortController = "active"
            THEN [w EXCEPT !.abortController = "aborted"]
            ELSE w
      w2 == Tk_disconnect(w1)
      w3 == [w2 EXCEPT !.state = [createDefaultState EXCEPT !.type = w2.state.type],
                       !.attempt.disconnected = (@ \/ w.attempt.result = "pending")]
  IN Log(broadcastState(w3), "return", "disconnect", [ok |-> TRUE])

disconnect(w0) ==
  LET w == Log(w0, "call", "disconnect", <<>>)
      w1 == IF w.abortController = "active"
            THEN [w EXCEPT !.abortController = "aborted"]
            ELSE w
      w2 == disconnectAllQuietly(w1)
      w3 == [w2 EXCEPT !.state = [createDefaultState EXCEPT !.type = w2.state.type],
                       !.attempt.disconnected = (@ \/ w.attempt.result = "pending")]
  IN Log(broadcastState(w3), "return", "disconnect", [ok |-> TRUE])

-----------------------------------------------------------------------------
(* Inputs *)

\* Handles given to connect: one that normalizes to a valid handle, one malformed.
Inputs == { <<"@", "A", " ">>, <<"b", "!">> }

\* The reasons a close event of the Euler socket carries: none, or some text.
CloseReasons == {"", "going away"}

\* What the connector library's connect() rejects with.
LibErrors == { Err(<<"LIVE has ended">>) }

\* A caller that holds no object of a getter.
NothingHeld == [phase |-> "none", getter |-> "getStats", a |-> <<>>, b |-> <<>>]

SanIdle == [phase |-> "idle", a |-> <<>>, b |-> <<>>, cleanedA |-> <<>>, cleanedB |-> <<>>,
            validA |-> FALSE]

-----------------------------------------------------------------------------
(* The self-reconnecting TikTokService (its connect returns {success, message}) *)

\* config.connection.maxReconnectAttempts
maxReconnectAttempts == 5

\* The service after construction.  connection: 0 is null, else the index in conns
\* of the WebcastPushConnection it refers to.  reconnectTimer: "null", or the
\* handle of a timer that is "pending" or has "fired".  cooling: now -
\* lastConnectionAttempt < config.connection.cooldownMs.  strays: the pending
\* timers whose handle was overwritten and that no disconnect() call has met;
\* survivors: the pending timers that were pending during a disconnect() call.
\* automatic: the connections opened by reconnect timers since the user last
\* called connect.  userCalls: the calls the user made.  turn, ret, sent: the
\* last turn, what its connect call returned, and what it broadcast.
Lg_new ==
  [connection |-> 0, isConnecting |-> FALSE, reconnectTimer |-> "null",
   reconnectAttempts |-> 0, cooling |-> FALSE, connectedSince |-> FALSE,
   conns |-> <<>>, strays |-> 0, survivors |-> 0, automatic |-> 0,
   userCalls |-> 0, turn |-> "none", ret |-> "", sent |-> <<>>]

Lg_turn(l, name) == [l EXCEPT !.turn = name, !.ret = "", !.sent = <<>>]

Lg_broadcast(l, type) == [l EXCEPT !.sent = Append(@, type)]

\* disconnect(): only the timer reconnectTimer refers to is cleared.
Lg_disconnect(l, libThrows) ==
  LET a == [l EXCEPT !.reconnectTimer = "null",
                     !.survivors = @ + l.strays,
                     !.strays = 0]
      b == IF a.connection # 0
           THEN [a EXCEPT !.conns[a.connection] =
                            IF libThrows THEN @ ELSE Lib_disconnect(@),
                          !.connection = 0]
           ELSE a
  IN  [b EXCEPT !.connectedSince = FALSE, !.isConnecting = FALSE]

\* connect(uniqueId), up to its await of connection.connect(); valid: the
\* cleaned uniqueId is not empty.
Lg_connect(l, valid, libThrows) ==
  IF l.cooling
  THEN [l EXCEPT !.ret = "Please wait before reconnecting."]
  ELSE LET a == [l EXCEPT !.cooling = TRUE] IN
       IF a.isConnecting
       THEN [a EXCEPT !.ret = "Already connecting. Please wait."]
       ELSE LET b == Lg_disconnect(a, libThrows) IN
            IF ~valid
            THEN [b EXCEPT !.ret = "Please provide a valid username."]
            ELSE [b EXCEPT !.isConnecting = TRUE,
                           !.reconnectAttempts = 0,
                           !.conns = Append(@, [st |-> "connecting", uniqueId |-> <<>>]),
                           !.connection = Len(b.conns) + 1,
                           !.ret = "pending"]

\* connect(uniqueId) after its await: connection.connect() resolved (ok) or rejected.
Lg_connectSettled(l, ok) ==
  IF ok
  THEN Lg_broadcast([l EXCEPT !.connectedSince = TRUE, !.isConnecting = FALSE,
                              !.ret = "Connected"], "connected")
  ELSE Lg_broadcast([l EXCEPT !.isConnecting = FALSE, !.ret = "failed"],
                    "disconnected")

Lg_handleDisconnect(l, reason) ==
  LET b == Lg_broadcast(l, "disconnected") IN
  IF b.reconnectAttempts < maxReconnectAttempts /\ reason = "Connection lost"
  THEN [b EXCEPT !.reconnectAttempts = @ + 1,
                 !.strays = IF b.reconnectTimer = "pending" THEN @ + 1 ELSE @,
                 !.reconnectTimer = "pending"]
  ELSE b

\* connection.on("streamEnd", ...)
Lg_onStreamEnd(l) ==
  Lg_handleDisconnect(Lg_broadcast(l, "streamEnd"), "Stream has ended")

\* connection.on("disconnected", ...)
Lg_onDisconnected(l) == Lg_handleDisconnect(l, "Connection lost")

\* The callback of the reconnect timer: this.connect(uniqueId), with the
\* uniqueId the connection was opened with.
Lg_reconnect(l, libThrows) ==
  LET c == Lg_connect(l, TRUE, libThrows) IN
  [c EXCEPT !.automatic = IF c.ret = "pending" THEN @ + 1 ELSE @]

-----------------------------------------------------------------------------
(* The state after construction *)

ProgramInit ==
  /\ state = createDefaultState
  /\ connectLock = FALSE
  /\ abortController = "null"
  /\ call = [c \in Callers |-> IdleFrame]
  /\ tk = [connection |-> 0, connected |-> FALSE, currentUniqueId |-> NULL,
           stats |-> Tk_defaultStats, connectLock |-> FALSE]
  /\ conn = [i \in ConnIds |-> UnusedConn]
  /\ tkRace = NoRace
  /\ eu = [ws |-> 0, connected |-> FALSE, currentUniqueId |-> NULL,
           stats |-> Eu_defaultStats, heartbeatInterval |-> FALSE,
           abortController |-> "null"]
  /\ sock = [i \in SockIds |-> UnusedSock]
  /\ euFetch = NoFetch
  /\ out = <<>>
  /\ attempt = NoAttempt
  /\ fallbackEnabled \in BOOLEAN
  /\ clients = <<>>
  /\ broken = {}
  /\ held = NothingHeld
  /\ notified = [id \in ConnIds |-> 0]
  /\ legacy = Lg_new

Init == ProgramInit /\ san = SanIdle

-----------------------------------------------------------------------------
(* Turns of the event loop *)

\* A caller invokes ConnectionManager.connect; its frame is the first free one.
Connect(c, uniqueId, connectionType) ==
  /\ call[c].pc = "idle"
  /\ c = "c2" => call["c1"].pc # "idle"
  /\ \/ connectLock
     \/ ~isValidUsername(cleanUsername(uniqueId))
     \/ attempt.n < MaxAttempts
  /\ Commit(connect(World, c, uniqueId, connectionType))

\* A connect call during whose teardown the library's disconnect() throws.
ConnectLibThrows(c, uniqueId, connectionType) ==
  /\ call[c].pc = "idle"
  /\ c = "c2" => call["c1"].pc # "idle"
  /\ attempt.n < MaxAttempts
  /\ tk.connection # 0
  /\ Commit(connect([World EXCEPT !.libThrows = TRUE], c, uniqueId, connectionType))

\* ConnectionManager.disconnect is invoked; the library's disconnect() may throw.
Disconnect(libThrows) ==
  /\ libThrows => tk.connection # 0
  /\ Commit(disconnect([World EXCEPT !.libThrows = libThrows]))

\* The library's connect() promise resolves.
LibConnectResolves(id) ==
  /\ conn[id].st = "connecting"
  /\ LET w == Log([World EXCEPT !.conn[id].st = "live"], "event", "lib.connectResolved", id)
     IN Commit(IF tkRace.conn = id
               THEN connectResume(Tk_connectResolved(w), tkRace.caller)
               ELSE w)

\* The library's connect() promise rejects.
LibConnectRejects(id, err) ==
  /\ conn[id].st = "connecting"
  /\ LET w == Log([World EXCEPT !.conn[id] = ClosedConn], "event", "lib.connectRejected", id)
     IN Commit(IF tkRace.conn = id
               THEN connectResume(Tk_connectRejected(w, err), tkRace.caller)
               ELSE w)

\* The connectorTimeoutMs timer of the race fires first.
ConnectorTimeout ==
  /\ tkRace.conn # 0
  /\ Commit(connectResume(
              Tk_connectRejected(Log(World, "event", "lib.connectTimeout", tkRace.conn),
                                 Err(<<"Connection timeout">>)),
              tkRace.caller))

\* The library raises "disconnected".
LibDisconnected(id) ==
  /\ conn[id].st \in {"live", "ending"}
  /\ Commit(handleDisconnect(Log([World EXCEPT !.conn[id] = ClosedConn],
                                 "event", "tiktok.disconnected", id),
                             conn[id].uniqueId, "Disconnected by server"))

\* The library raises "streamEnd".
LibStreamEnd(id) ==
  /\ conn[id].st = "live"
  /\ Commit(broadcast(handleDisconnect(Log([World EXCEPT !.conn[id].st = "ending"],
                                           "event", "tiktok.streamEnd", id),
                                       conn[id].uniqueId, "Stream ended"),
                      "streamEnd", [type |-> "streamEnd", action |-> 3]))

\* fetchRoomInfo returns: a room, or null (no room id, HTTP error, abort).
FetchSettles(found) ==
  /\ euFetch.st \in {"pending", "aborted"}
  /\ euFetch.st = "aborted" => ~found
  /\ Commit(connectResume(Eu_afterFetch(Log(World, "event", "euler.fetch", found), found),
                          euFetch.caller))

\* ws.onopen
SockOpen(id) ==
  /\ sock[id].readyState = "connecting"
  /\ LET w == startHeartbeat(Log([World EXCEPT !.sock[id].readyState = "open",
                                               !.sock[id].timer = FALSE],
                                   "event", "sock.open", id))
     IN Commit(IF sock[id].promise = "pending"
               THEN connectResume(
                      Eu_connectResolved([w EXCEPT !.sock[id].promise = "settled"],
                                         sock[id].uniqueId),
                      sock[id].caller)
               ELSE w)

\* The eulerTimeoutMs timer of connectWebSocket fires.
SockTimeout(id) ==
  /\ sock[id].timer
  /\ LET w == Log([World EXCEPT !.sock[id].timer = FALSE], "event", "sock.timeout", id)
     IN Commit(IF sock[id].promise = "pending"
               THEN connectResume(
                      Eu_connectCatch([w EXCEPT !.sock[id].promise = "settled"],
                                      Err(<<"Euler WebSocket connection timeout">>)),
                      sock[id].caller)
               ELSE w)

\* ws.onerror; the socket's close event follows.
SockError(id) ==
  /\ sock[id].readyState \in {"connecting", "open", "aborting"}
  /\ LET w == Log([World EXCEPT !.sock[id].readyState = "closing",
                                !.sock[id].timer = FALSE],
                     "event", "sock.error", id)
     IN Commit(IF sock[id].promise = "pending"
               THEN connectResume(
                      Eu_connectCatch([w EXCEPT !.sock[id].promise = "settled"],
                                      Err(<<"Euler WebSocket connection error">>)),
                      sock[id].caller)
               ELSE w)

\* The socket's close event, with the reason it carries.
SockClose(id, reason) ==
  /\ sock[id].readyState \in {"open", "closing", "aborting"}
  /\ Commit(onclose(Log([World EXCEPT !.sock[id] = ClosedSock], "event", "sock.close",
                        [id |-> id, reason |-> reason]),
                    reason))

\* ws.onmessage with a control frame whose action is 3 (stream end).
SockStreamEnd(id) ==
  /\ sock[id].readyState = "open"
  /\ Commit(Eu_disconnectBody(
              broadcast(Log(World, "event", "euler.streamEnd", [action |-> 3, status |-> 0]),
                        "streamEnd", [type |-> "streamEnd", action |-> 3])))

\* The heartbeat timer fires; the socket's send() may throw.
HeartbeatTick(sendThrows) ==
  /\ eu.heartbeatInterval
  /\ sendThrows => (eu.ws # 0 /\ sock[eu.ws].readyState = "open")
  /\ Commit(heartbeat(Log(World, "event", "euler.heartbeat", sendThrows), sendThrows))

Next ==
  \/ \E c \in Callers, u \in Inputs, t \in ConnectionTypes : Connect(c, u, t)
  \/ \E c \in Callers, u \in Inputs, t \in ConnectionTypes : ConnectLibThrows(c, u, t)
  \/ \E libThrows \in BOOLEAN : Disconnect(libThrows)
  \/ \E id \in ConnIds : LibConnectResolves(id)
  \/ \E id \in ConnIds, err \in LibErrors : LibConnectRejects(id, err)
  \/ ConnectorTimeout
  \/ \E id \in ConnIds : LibDisconnected(id)
  \/ \E id \in ConnIds : LibStreamEnd(id)
  \/ \E found \in BOOLEAN : FetchSettles(found)
  \/ \E id \in SockIds : SockOpen(id)
  \/ \E id \in SockIds : SockTimeout(id)
  \/ \E id \in SockIds : SockError(id)
  \/ \E id \in SockIds, reason \in CloseReasons : SockClose(id, reason)
  \/ \E id \in SockIds : SockStreamEnd(id)

Spec == Init /\ [][Next]_vars

-----------------------------------------------------------------------------
(* Events of a live stream *)

\* The events a backend's counters have taken up.
EventsSeen(stats) ==
  stats.chatCount + stats.giftCount + stats.totalLikes + stats.joinCount
    + stats.followerCount + stats.shareCount

Gift(giftType, repeatEnd, diamondCount, repeatCount) ==
  [giftType |-> giftType, repeatEnd |-> repeatEnd, diamondCount |-> diamondCount,
   repeatCount |-> repeatCount]

\* Two plain gifts, a streak that goes on, a streak that ended, and a gift
\* without a repeatCount.
Gifts ==
  {Gift(2, FALSE, 1, 10), Gift(2, FALSE, 29999, 1), Gift(1, FALSE, 5, 2),
   Gift(1, TRUE, 5, 2), Gift(2, FALSE, 5, 0)}

Like(likeCount, totalLikeCount) ==
  [likeCount |-> likeCount, totalLikeCount |-> totalLikeCount]

\* Likes with and without a count and a running total.
Likes == {Like(1, 5), Like(2, 0), Like(0, 9)}

\* displayType of a social event, as the pieces of its text: the bare words,
\* a longer key that holds "follow", and one that holds neither word.
DisplayTypes == {<<"follow">>, <<"share">>, <<"pm_main_", "follow", "_message">>, <<"other">>}

ViewerCounts == {0, 7}

NoFields ==
  [giftType |-> 0, repeatEnd |-> FALSE, diamondCount |-> 0, repeatCount |-> 0,
   likeCount |-> 0, totalLikeCount |-> 0, displayType |-> <<>>, viewerCount |-> 0,
   action |-> 0, status |-> 0, method |-> "", msg_type |-> ""]

\* The decoded messages of the Euler socket: events, and control messages with
\* and without an action code and a status.
EulerMessages ==
  {[type |-> "chat"] @@ NoFields, [type |-> "member"] @@ NoFields}
    \cup {[type |-> "gift", giftType |-> g.giftType, repeatEnd |-> g.repeatEnd,
           diamondCount |-> g.diamondCount, repeatCount |-> g.repeatCount] @@ NoFields
            : g \in Gifts}
    \cup {[type |-> "like", likeCount |-> l.likeCount,
           totalLikeCount |-> l.totalLikeCount] @@ NoFields : l \in Likes}
    \cup {[type |-> "social", displayType |-> d] @@ NoFields : d \in DisplayTypes}
    \cup {[type |-> "roomUser", viewerCount |-> v] @@ NoFields : v \in ViewerCounts}
    \cup {[type |-> "streamEnd", action |-> a, status |-> s] @@ NoFields
            : a \in {0, 1, 3}, s \in {0, 3}}

\* Raw frames of the Euler socket as [form, json], json being what JSON.parse
\* makes of the frame's text: nothing (malformed text), a value that is no
\* object, an array, or an object. There are texts that are no JSON, JSON that
\* is no object, objects of an unknown type (with and without a known type in
\* a field read later), an object without fields, a chat message named by its
\* method only, and a frame that is neither a string nor a buffer.
RawFrames ==
  LET Untyped == [type |-> ""] @@ NoFields
      Json(kind, obj) == [kind |-> kind, obj |-> obj]
  IN {[form |-> f, json |-> Json(k, Untyped)]
        : f \in {"string", "buffer"}, k \in {"malformed", "null", "number", "array"}}
       \cup {[form |-> "string", json |-> Json("object", [type |-> "ping"] @@ NoFields)],
             [form |-> "string",
              json |-> Json("object", [type |-> "ping", method |-> "chat"] @@ NoFields)],
             [form |-> "string", json |-> Json("object", Untyped)],
             [form |-> "buffer",
              json |-> Json("object",
                            [type |-> "", method |-> "WebcastChatMessage"] @@ NoFields)],
             [form |-> "blob", json |-> Json("object", [type |-> "chat"] @@ NoFields)]}

\* An event of the library's connection id reaches its handler.
LibEvent(id, name, data) ==
  /\ conn[id].st = "live"
  /\ EventsSeen(tk.stats) + EventsSeen(eu.stats) < MaxEvents
  /\ LET w == Log(World, "event", "tiktok." \o name, data)
     IN Commit(CASE name = "chat" -> Tk_onChat(w)
                 [] name = "gift" -> Tk_onGift(w, data)
                 [] name = "like" -> Tk_onLike(w, data)
                 [] name = "member" -> Tk_onMember(w)
                 [] name = "social" -> Tk_onSocial(w, data.displayType)
                 [] OTHER -> Tk_onRoomUser(w, data.viewerCount))

LibChat(id) == LibEvent(id, "chat", NoFields)

LibGift(id, gift) == LibEvent(id, "gift", gift)

LibLike(id, like) == LibEvent(id, "like", like)

LibMember(id) == LibEvent(id, "member", NoFields)

LibSocial(id, displayType) == LibEvent(id, "social", [displayType |-> displayType])

LibRoomUser(id, viewerCount) == LibEvent(id, "roomUser", [viewerCount |-> viewerCount])

\* ws.onmessage with a message that carries an event.
SockMessage(id, data) ==
  /\ sock[id].readyState = "open"
  /\ EventsSeen(tk.stats) + EventsSeen(eu.stats) < MaxEvents
  /\ Commit(handleMessage(Log(World, "event", "euler." \o data.type, data), data))

\* ws.onmessage with a raw frame.
SockFrame(id, raw) ==
  /\ sock[id].readyState = "open"
  /\ EventsSeen(tk.stats) + EventsSeen(eu.stats) < MaxEvents
  /\ Commit(onmessage(Log(World, "event", "euler.frame", raw), raw))

NextEvents ==
  \/ \E t \in {"connector", "euler"} : Connect("c1", <<"a">>, t)
  \/ Disconnect(FALSE)
  \/ \E id \in ConnIds : LibConnectResolves(id)
  \/ FetchSettles(TRUE)
  \/ \E id \in SockIds : SockOpen(id)
  \/ \E id \in ConnIds : LibChat(id)
  \/ \E id \in ConnIds, gift \in Gifts : LibGift(id, gift)
  \/ \E id \in ConnIds, like \in Likes : LibLike(id, like)
  \/ \E id \in ConnIds : LibMember(id)
  \/ \E id \in ConnIds, displayType \in DisplayTypes : LibSocial(id, displayType)
  \/ \E id \in ConnIds, viewerCount \in ViewerCounts : LibRoomUser(id, viewerCount)
  \/ \E id \in SockIds, data \in EulerMessages : SockMessage(id, data)

SpecEvents == Init /\ [][NextEvents]_vars

\* Gift messages that lack the diamond value, or every field.
SparseGifts ==
  {[type |-> "gift"] @@ NoFields, [type |-> "gift", repeatCount |-> 2] @@ NoFields}

\* The frames of the Euler socket, well-formed or not.
NextFrames ==
  \/ Connect("c1", <<"a">>, "euler")
  \/ FetchSettles(TRUE)
  \/ \E id \in SockIds : SockOpen(id)
  \/ \E id \in SockIds, data \in EulerMessages \cup SparseGifts : SockMessage(id, data)
  \/ \E id \in SockIds, raw \in RawFrames : SockFrame(id, raw)

SpecFrames == Init /\ [][NextFrames]_vars

\* The Euler backend alone, with everything that sets up and tears down its
\* socket, and its timer.
NextEuler ==
  \/ \E c \in Callers, u \in Inputs : Connect(c, u, "euler")
  \/ Disconnect(FALSE)
  \/ \E found \in BOOLEAN : FetchSettles(found)
  \/ \E id \in SockIds : SockOpen(id)
  \/ \E id \in SockIds : SockTimeout(id)
  \/ \E id \in SockIds : SockError(id)
  \/ \E id \in SockIds, reason \in CloseReasons : SockClose(id, reason)
  \/ \E id \in SockIds : SockStreamEnd(id)
  \/ \E sendThrows \in BOOLEAN : HeartbeatTick(sendThrows)

SpecEuler == Init /\ [][NextEuler]_vars

-----------------------------------------------------------------------------
(* Browser clients of the WebSocketService *)

ClientIds == {"k1", "k2", "k3"}

\* websocket.open of the server: the client is attached and sent the init message.
ClientOpens(client) ==
  /\ client \notin broken
  /\ \A i \in 1..Len(clients) : clients[i] # client
  /\ Commit(Log(addClient(World, client), "send", "init", client))

\* websocket.close of the server.
ClientCloses(client) ==
  /\ client \in broken \/ \E i \in 1..Len(clients) : clients[i] = client
  /\ Commit([removeClient(World, client) EXCEPT !.broken = @ \ {client}])

\* The socket of an attached client goes bad: its send() throws from now on.
ClientBreaks(client) ==
  /\ client \notin broken
  /\ \E i \in 1..Len(clients) : clients[i] = client
  /\ Commit([World EXCEPT !.broken = @ \cup {client}])

NextClients ==
  \/ \E client \in ClientIds : ClientOpens(client)
  \/ \E client \in ClientIds : ClientCloses(client)
  \/ \E client \in ClientIds : ClientBreaks(client)
  \/ Connect("c1", <<"a">>, "connector")
  \/ \E id \in ConnIds : LibConnectResolves(id)
  \/ Disconnect(FALSE)

SpecClients == Init /\ [][NextClients]_vars

-----------------------------------------------------------------------------
(* Callers of the getters *)

Getters == {"getStats", "getState", "tiktok.getStats", "euler.getStats"}

\* A caller calls a getter twice in a row and keeps both objects.
GetTwice(getter) ==
  LET get(w) == CASE getter = "getStats" -> getStatsObject(w)
                  [] getter = "getState" -> getStateObject(w)
                  [] getter = "tiktok.getStats" -> Tk_getStatsObject(w)
                  [] OTHER -> Eu_getStatsObject(w)
  IN Commit([World EXCEPT !.held = [phase |-> "read", getter |-> getter,
                                    a |-> get(World), b |-> get(World)]])

\* The caller assigns some other value to a field of the first object it holds.
ChangeHeld(field) ==
  /\ held.phase = "read"
  /\ field \in DOMAIN held.a.val
  /\ LET old == held.a.val[field]
         value == CASE field \in {"uniqueId", "failureReason"} ->
                         IF old = NULL THEN Some(<<"x">>) ELSE NULL
                    [] field \in {"connectedSince", "activeMethod", "type", "status"} ->
                         "changed"
                    [] field = "fallbackUsed" -> ~old
                    [] OTHER -> old + 1
         w == assign(World, held.a.ref, field, value)
     IN Commit([w EXCEPT !.held = [held EXCEPT !.phase = "changed",
                                               !.a.val[field] = value]])

NextReaders ==
  \/ \E t \in {"connector", "euler"} : Connect("c1", <<"a">>, t)
  \/ \E id \in ConnIds : LibConnectResolves(id)
  \/ FetchSettles(TRUE)
  \/ \E id \in SockIds : SockOpen(id)
  \/ \E id \in ConnIds : LibChat(id)
  \/ \E id \in SockIds : SockMessage(id, [type |-> "chat"] @@ NoFields)
  \/ \E getter \in Getters : GetTwice(getter)
  \/ \E field \in DOMAIN DEFAULT_STATS \cup DOMAIN createDefaultState : ChangeHeld(field)

SpecReaders == Init /\ [][NextReaders]_vars

-----------------------------------------------------------------------------
(* Connect calls over many handles, with backends that only fail *)

\* The strings of at most n characters over chars.
RECURSIVE Strings(_, _)
Strings(chars, n) ==
  IF n = 0
  THEN {<<>>}
  ELSE LET shorter == Strings(chars, n - 1)
       IN shorter \cup {Append(s, ch) : s \in shorter, ch \in chars}

Pad(n) == [i \in 1..n |-> "a"]

\* Handles about as long as the limit, plain and decorated.
LongInputs ==
  {prefix \o Pad(k) : prefix \in {<<>>, <<"@">>, <<"@", "@">>},
                      k \in (MaxUsernameLen - 1)..(MaxUsernameLen + 1)}

HandleInputs == Strings({"a", "A", "@", " ", "!"}, MaxLen) \cup LongInputs

\* The first attempt of a manager, whatever was refused before it.
ConnectHandle(u, t) ==
  /\ attempt.n = 0
  /\ Connect("c1", u, t)

NextHandles ==
  \/ \E u \in HandleInputs, t \in {"connector", "euler"} : ConnectHandle(u, t)
  \/ ConnectorTimeout
  \/ FetchSettles(FALSE)

SpecHandles == Init /\ [][NextHandles]_vars

-----------------------------------------------------------------------------
(* The sanitize functions on pairs of inputs *)

SanInputs == Strings({"a", "A", "@", " "}, MaxLen)

SanPick(a, b) ==
  /\ san.phase = "idle"
  /\ san' = [SanIdle EXCEPT !.phase = "picked", !.a = a, !.b = b]
  /\ UNCHANGED <<state, connectLock, abortController, call, tk, conn, tkRace, eu, sock,
                 euFetch, out, attempt, fallbackEnabled, clients, broken, held,
                 notified, legacy>>

SanApply ==
  /\ san.phase = "picked"
  /\ san' = [san EXCEPT !.phase = "done",
                        !.cleanedA = cleanUsername(san.a),
                        !.cleanedB = cleanUsername(san.b),
                        !.validA = isValidUsername(san.a)]
  /\ UNCHANGED <<state, connectLock, abortController, call, tk, conn, tkRace, eu, sock,
                 euFetch, out, attempt, fallbackEnabled, clients, broken, held,
                 notified, legacy>>

SanNext ==
  \/ \E a \in SanInputs, b \in SanInputs : SanPick(a, b)
  \/ SanApply

SpecSanitize == Init /\ [][SanNext]_vars

-----------------------------------------------------------------------------
(* Vocabulary of the properties *)

InFlight == {c \in Callers : call[c].pc # "idle"}

\* The connect call in flight ended in the last turn.
Finished == attempt.result \in {"ok", "rejected"}

OutIs(i, kind, name) == out[i].kind = kind /\ out[i].name = name

OutHas(kind, name) == \E i \in 1..Len(out) : OutIs(i, kind, name)

BackendCalls == {"tiktok.connect", "tiktok.disconnect", "euler.connect", "euler.disconnect"}

NoBackendCall == \A i \in 1..Len(out) : ~(out[i].kind = "call" /\ out[i].name \in BackendCalls)

FailedBecause(reason) ==
  /\ state.status = "failed"
  /\ state.failureReason # NULL
  /\ Len(reason) > 0
  /\ Contains(state.failureReason[1], reason)

IsInvalidHandleError(msg) == Len(msg) > 0 /\ msg[1] = "Invalid TikTok username: \""

WellFormedHandle(h) ==
  /\ Len(h) > 0
  /\ Len(h) <= MaxUsernameLen
  /\ \A i \in 1..Len(h) : h[i] \in LowerChars \cup OtherWordChars

-----------------------------------------------------------------------------
(* Properties *)

\* C1: a connect call made while another connect call is in flight is rejected
\* with the "already in progress" error and changes nothing (state, lock, abort
\* controller, frames, both backends, their pending work); never are two
\* connect calls past the lock check.
C1_SingleFlight ==
  [][ /\ Cardinality(InFlight') <= 1
      /\ (InFlight # {} /\ OutHas("call", "connect")')
           => /\ OutHas("return", "connectRejectedByLock")'
              /\ ~OutHas("return", "connect")'
              /\ UNCHANGED <<state, connectLock, abortController, call, tk, conn,
                             tkRace, eu, sock, euFetch, attempt>> ]_vars

C1_Witness == InFlight # {} /\ OutHas("return", "connectRejectedByLock")

\* C2: once connect and a disconnect called after it have both finished, the
\* status is disconnected, the handle null and the stats the zero-value stats.
C2_DisconnectAfterConnect ==
  ((Finished /\ attempt.valid /\ attempt.disconnected)
     \/ (OutHas("call", "disconnect") /\ InFlight = {}))
  => /\ state.status = "disconnected"
     /\ state.uniqueId = NULL
     /\ getStats(World) = DEFAULT_STATS

\* C3: after disconnect() during a connect attempt, no room resolution of the
\* raw backend is still pending, no WebSocket of it is connecting or open, and
\* the raw backend is not connected.
C3_RawAttemptCancelled ==
  attempt.disconnected
  => /\ euFetch.st # "pending"
     /\ \A id \in SockIds : sock[id].readyState \notin {"connecting", "open"}
     /\ ~eu.connected

ToastAfterConnectedState ==
  \E i, j \in 1..Len(out) :
    /\ i < j
    /\ OutIs(i, "broadcast", "connectionState")
    /\ out[i].data.status = "connected"
    /\ OutIs(j, "broadcast", "toast")

AutoFellBack ==
  /\ Finished
  /\ attempt.type = "auto"
  /\ fallbackEnabled
  /\ attempt.connectorResult = "fail"
  /\ attempt.eulerResult = "ok"
  /\ ~attempt.disconnected

\* C4: in auto mode with fallback enabled, when the connector failed, Euler
\* succeeded and no disconnect intervened, connect ends with status connected,
\* fallbackUsed true, activeMethod euler, and the toast is broadcast after the
\* connected state.
C4_AutoFallbackConnected ==
  AutoFellBack
  => /\ attempt.result = "ok"
     /\ state.status = "connected"
     /\ state.fallbackUsed
     /\ state.activeMethod = "euler"
     /\ ToastAfterConnectedState

C4_Witness == AutoFellBack /\ state.status = "connected" /\ OutHas("broadcast", "toast")

AutoNoFallback ==
  /\ attempt.type = "auto"
  /\ ~fallbackEnabled
  /\ attempt.connectorResult = "fail"

\* C5: in auto mode with fallback disabled, a failure of the connector ends the
\* attempt in that turn: connect rejects, the status is failed, and
\* EulerService.connect was not invoked.
C5_NoFallbackWhenDisabled ==
  AutoNoFallback
  => /\ attempt.result = "rejected"
     /\ state.status = "failed"
     /\ attempt.eulerCalls = 0
     /\ ~OutHas("call", "euler.connect")

C5_Witness == AutoNoFallback /\ attempt.result = "rejected"

AutoBothFailed ==
  /\ Finished
  /\ attempt.type = "auto"
  /\ fallbackEnabled
  /\ attempt.connectorResult = "fail"
  /\ attempt.eulerResult = "fail"

\* C6: in auto mode with fallback enabled, when both backends failed, connect
\* rejects and the state is failed with a failureReason that contains the
\* connector's reason and Euler's reason.
C6_CombinedReason ==
  AutoBothFailed
  => /\ attempt.result = "rejected"
     /\ FailedBecause(attempt.connectorReason)
     /\ FailedBecause(attempt.eulerReason)

C6_Witness == AutoBothFailed /\ state.status = "failed"

\* C7: in mode connector (euler), exactly the connector's (Euler's) connect is
\* invoked, once, and never the other one's; if it fails, connect rejects and
\* the state is failed with a failureReason carrying the backend's error.
C7_SingleBackend ==
  /\ (attempt.valid /\ attempt.type = "connector")
       => /\ attempt.connectorCalls = 1
          /\ attempt.eulerCalls = 0
          /\ (attempt.connectorResult = "fail"
                => attempt.result = "rejected" /\ FailedBecause(attempt.connectorReason))
  /\ (attempt.valid /\ attempt.type = "euler")
       => /\ attempt.eulerCalls = 1
          /\ attempt.connectorCalls = 0
          /\ (attempt.eulerResult = "fail"
                => attempt.result = "rejected" /\ FailedBecause(attempt.eulerReason))

C7_Witness ==
  /\ attempt.valid
  /\ attempt.type = "euler"
  /\ attempt.eulerResult = "fail"
  /\ attempt.result = "rejected"

\* The turn whose trace is o was a connect call, not refused by the lock, whose
\* handle fails validation.
InvalidHandleIn(o) ==
  /\ \A i \in 1..Len(o) : ~(o[i].kind = "return" /\ o[i].name = "connectRejectedByLock")
  /\ \E i \in 1..Len(o) :
       /\ o[i].kind = "call"
       /\ o[i].name = "connect"
       /\ ~isValidUsername(cleanUsername(o[i].data.uniqueId))

InvalidHandleGiven == InvalidHandleIn(out)

\* C8: connect given a handle that fails validation rejects with the
\* invalid-handle error, calls neither connect nor disconnect of a backend,
\* leaves both backends (connected flag, stats, objects) as they were, and
\* releases the lock.
C8_InvalidHandleTouchesNothing ==
  [][ InvalidHandleIn(out')
        => /\ attempt'.result = "rejected"
           /\ IsInvalidHandleError(attempt'.error)
           /\ NoBackendCall'
           /\ UNCHANGED <<tk, conn, tkRace, eu, sock, euFetch>>
           /\ ~connectLock' ]_vars

C8_Witness ==
  /\ InvalidHandleGiven
  /\ isConnected(World)
  /\ getStats(World) # DEFAULT_STATS
  /\ ~connectLock

\* C9: a backend's connect is invoked only with a handle that is non-empty, at
\* most 50 characters long and made of lower-case letters, digits, underscore
\* and dot; a connect call whose normalized handle is not of that form invokes
\* no backend.
C9_OnlyWellFormedHandles ==
  /\ \A i \in 1..Len(out) :
       (out[i].kind = "call" /\ out[i].name \in {"tiktok.connect", "euler.connect"})
         => WellFormedHandle(out[i].data)
  /\ \A i \in 1..Len(out) :
       (OutIs(i, "call", "connect")
          /\ ~WellFormedHandle(cleanUsername(out[i].data.uniqueId)))
         => NoBackendCall

\* What is left of x without its surrounding whitespace, one leading "@" and
\* its letter case.
Core(x) == toLowerCase(trim(replaceLeadingAt(trim(x))))

\* Two inputs that differ only by surrounding whitespace, one leading "@" and
\* letter case.
SameHandle(a, b) == Core(a) = Core(b)

\* C10: cleanUsername maps inputs that differ only by surrounding whitespace,
\* one leading "@" and letter case to the same handle, and its result has no
\* leading "@" and no surrounding whitespace.
C10_Normalization ==
  san.phase = "done"
  => /\ SameHandle(san.a, san.b) => san.cleanedA = san.cleanedB
     /\ \/ san.cleanedA = <<>>
        \/ /\ san.cleanedA[1] \notin Whitespace
           /\ san.cleanedA[Len(san.cleanedA)] \notin Whitespace
           /\ san.cleanedA[1] = "@" => (Core(san.a) # <<>> /\ Core(san.a)[1] = "@")

BackendConnects == {"tiktok.connect", "euler.connect"}

IsConnecting(i) == OutIs(i, "broadcast", "connectionState") /\ out[i].data.status = "connecting"

IsBackendConnect(i) == out[i].kind = "call" /\ out[i].name \in BackendConnects

StateBroadcasts == {i \in 1..Len(out) : OutIs(i, "broadcast", "connectionState")}

\* The status of the last connectionState broadcast of the turn.
LastPublishedStatus ==
  LET last == CHOOSE i \in StateBroadcasts : \A j \in StateBroadcasts : j <= i
  IN out[last].data.status

\* C11: a connect call that passes validation broadcasts a connectionState with
\* status connecting before any backend connect is invoked (a backend connect
\* is invoked only in the turn of that broadcast, after it, or in a later turn
\* of the same call); in the turn in which the call finishes, the last state it
\* published and the state itself have status connected if it resolved and
\* failed if it rejected, never connecting.
C11_ConnectingThenTerminal ==
  /\ \A k \in 1..Len(out) :
       IsBackendConnect(k)
         => /\ attempt.valid
            /\ OutHas("call", "connect") => \E j \in 1..(k - 1) : IsConnecting(j)
  /\ (OutHas("return", "connect") /\ attempt.valid)
       => /\ StateBroadcasts # {}
          /\ attempt.result = "ok" => (LastPublishedStatus = "connected" /\ state.status = "connected")
          /\ attempt.result = "rejected" => (LastPublishedStatus = "failed" /\ state.status = "failed")
          /\ state.status # "connecting"

C11_Witness ==
  /\ OutHas("return", "connect")
  /\ attempt.valid
  /\ attempt.result = "ok"
  /\ attempt.connectorCalls = 1
  /\ attempt.eulerCalls = 1
  /\ LastPublishedStatus = "connected"

\* C12: disconnect() returns normally, also when the library's disconnect()
\* throws, and ends with status disconnected, uniqueId null, activeMethod null,
\* failureReason null, fallbackUsed false and neither backend connected.
C12_DisconnectAlwaysSucceeds ==
  OutHas("call", "disconnect")
  => /\ OutHas("return", "disconnect")
     /\ state.status = "disconnected"
     /\ state.uniqueId = NULL
     /\ state.activeMethod = "null"
     /\ state.failureReason = NULL
     /\ ~state.fallbackUsed
     /\ ~Tk_isConnected(World)
     /\ ~Eu_isConnected(World)

C12_Witness ==
  /\ OutHas("call", "disconnect")
  /\ OutHas("log", "warn")
  /\ OutHas("broadcast", "disconnected")
  /\ OutHas("return", "disconnect")

\* A backend that is neither connected nor connecting.
Tk_idle == ~tk.connected /\ tk.connection = 0 /\ ~tk.connectLock

Eu_idle == ~eu.connected /\ eu.ws = 0 /\ euFetch.st # "pending"

\* C13: a disconnect() made when the manager's status is disconnected leaves
\* the manager's state and stats as they were; made when a backend is neither
\* connected nor connecting it leaves that backend's stats as they were; a
\* second disconnect() right after a first one changes nothing.
C13_DisconnectWhenDisconnected ==
  [][ OutHas("call", "disconnect")'
        => /\ state.status = "disconnected"
                => (state' = state /\ getStats(World)' = getStats(World))
           /\ Tk_idle => Tk_getStats(World)' = Tk_getStats(World)
           /\ Eu_idle => Eu_getStats(World)' = Eu_getStats(World)
           /\ OutHas("call", "disconnect")
                => UNCHANGED <<state, tk, eu, conn, sock>> ]_vars

\* C14: status is failed exactly when failureReason is non-null.
C14_FailedIffReason == (state.status = "failed") <=> (state.failureReason # NULL)

C14_Witness == state.status = "failed" /\ state.failureReason # NULL /\ isConnected(World)

\* C15: the uniqueId of getStats() is non-null exactly when the status is
\* connected.
C15_StatsHandleIffConnected ==
  (getStats(World).uniqueId # NULL) <=> (state.status = "connected")

\* C16: the two backends are never connected at the same time.
C16_AtMostOneBackend == ~(Tk_isConnected(World) /\ Eu_isConnected(World))

C16_Witness ==
  /\ Tk_isConnected(World)
  /\ state.activeMethod = "connector"
  /\ attempt.n = MaxAttempts
  /\ \E id \in SockIds : sock[id].readyState = "closed"

\* The turn whose trace is o handled the event name of a backend.
EventIn(o, name) == Len(o) > 0 /\ o[1].kind = "event" /\ o[1].name = name

IsEvent(o) == Len(o) > 0 /\ o[1].kind = "event"

Counters ==
  {"diamondsCount", "likeCount", "giftCount", "chatCount", "joinCount", "followerCount",
   "shareCount"}

\* The event of the turn whose trace is o is a like whose running total, as the
\* platform reports it, is below n.
ReportsFewerLikes(o, n) ==
  /\ o[1].name \in {"tiktok.like", "euler.like"}
  /\ o[1].data.totalLikeCount # 0
  /\ o[1].data.totalLikeCount < n

\* C17: while a backend is connected, handling an event decreases none of its
\* counters diamondsCount, likeCount, giftCount, chatCount, joinCount,
\* followerCount and shareCount (likes whose reported running total goes down
\* by itself set aside).
C17_CountersNeverDecrease ==
  [][ IsEvent(out')
        => \A k \in Counters :
             /\ (tk.connected /\ tk'.connected /\ ~ReportsFewerLikes(out', tk.stats.likeCount))
                  => tk'.stats[k] >= tk.stats[k]
             /\ (eu.connected /\ eu'.connected /\ ~ReportsFewerLikes(out', eu.stats.likeCount))
                  => eu'.stats[k] >= eu.stats[k] ]_vars

\* A gift of a streak that has not ended.
Unsettled(gift) == gift.giftType = 1 /\ ~gift.repeatEnd

GiftBroadcastIn(o) == \E i \in 1..Len(o) : o[i].kind = "broadcast" /\ o[i].name = "gift"

\* C18: in both backends a gift event with giftType 1 whose streak has not
\* ended changes neither giftCount nor diamondsCount and is not broadcast as a
\* gift.
C18_StreakNotCounted ==
  [][ /\ (EventIn(out', "tiktok.gift") /\ Unsettled(out'[1].data))
           => /\ tk'.stats.giftCount = tk.stats.giftCount
              /\ tk'.stats.diamondsCount = tk.stats.diamondsCount
              /\ ~GiftBroadcastIn(out')
      /\ (EventIn(out', "euler.gift") /\ Unsettled(out'[1].data))
           => /\ eu'.stats.giftCount = eu.stats.giftCount
              /\ eu'.stats.diamondsCount = eu.stats.diamondsCount
              /\ ~GiftBroadcastIn(out') ]_vars

\* The repeatCount a gift counts with: 1 when it has none or reports 0.
CountedRepeats(gift) == IF gift.repeatCount = 0 THEN 1 ELSE gift.repeatCount

\* C19 (amended): every settled gift raises giftCount by 1 and diamondsCount by
\* diamondCount times repeatCount, a missing or zero repeatCount counting as 1.
C19_GiftAccumulation ==
  [][ /\ (EventIn(out', "tiktok.gift") /\ ~Unsettled(out'[1].data))
           => /\ tk'.stats.giftCount = tk.stats.giftCount + 1
              /\ tk'.stats.diamondsCount =
                   tk.stats.diamondsCount
                     + out'[1].data.diamondCount * CountedRepeats(out'[1].data)
      /\ (EventIn(out', "euler.gift") /\ ~Unsettled(out'[1].data))
           => /\ eu'.stats.giftCount = eu.stats.giftCount + 1
              /\ eu'.stats.diamondsCount =
                   eu.stats.diamondsCount
                     + out'[1].data.diamondCount * CountedRepeats(out'[1].data) ]_vars

\* Gifts (1, 10) and (29999, 1) were counted on one connection.
C19_Witness ==
  /\ EventIn(out, "tiktok.gift")
  /\ Tk_isConnected(World)
  /\ getStats(World).giftCount = 2
  /\ getStats(World).diamondsCount = 30009

\* C19 (as stated): every settled gift raises giftCount by 1 and diamondsCount
\* by diamondCount times repeatCount.
C19_GiftAccumulation_AsStated ==
  [][ /\ (EventIn(out', "tiktok.gift") /\ ~Unsettled(out'[1].data))
           => /\ tk'.stats.giftCount = tk.stats.giftCount + 1
              /\ tk'.stats.diamondsCount =
                   tk.stats.diamondsCount
                     + out'[1].data.diamondCount * out'[1].data.repeatCount
      /\ (EventIn(out', "euler.gift") /\ ~Unsettled(out'[1].data))
           => /\ eu'.stats.giftCount = eu.stats.giftCount + 1
              /\ eu'.stats.diamondsCount =
                   eu.stats.diamondsCount
                     + out'[1].data.diamondCount * out'[1].data.repeatCount ]_vars

\* C20: every like event adds the event's likeCount to totalLikes and sets
\* likeCount to the event's totalLikeCount.
C20_LikeTotals ==
  [][ /\ EventIn(out', "tiktok.like")
           => /\ tk'.stats.totalLikes = tk.stats.totalLikes + out'[1].data.likeCount
              /\ tk'.stats.likeCount = out'[1].data.totalLikeCount
      /\ EventIn(out', "euler.like")
           => /\ eu'.stats.totalLikes = eu.stats.totalLikes + out'[1].data.likeCount
              /\ eu'.stats.likeCount = out'[1].data.totalLikeCount ]_vars

\* C21: two consecutive calls of getStats() or getState(), of the manager or of
\* a backend, return equal values in objects that are not the program's own;
\* when a caller changes a field of a returned object, the manager's state,
\* both backends (stats and counters to come) and what each getter returns
\* stay as they were.
C21_ReturnedValuesIndependent ==
  [][ /\ held'.phase = "read"
           => /\ held'.a.val = held'.b.val
              /\ held'.a.ref = "new"
              /\ held'.b.ref = "new"
      /\ (held.phase = "read" /\ held'.phase = "changed")
           => /\ UNCHANGED <<state, tk, eu>>
              /\ getStatsObject(World)' = getStatsObject(World)
              /\ getStateObject(World)' = getStateObject(World)
              /\ Tk_getStatsObject(World)' = Tk_getStatsObject(World)
              /\ Eu_getStatsObject(World)' = Eu_getStatsObject(World)
              /\ held'.b = held.b ]_vars

\* A caller changed chatCount in stats it got from the manager while the
\* connector backend was connected and had counted a chat.
C21_Witness ==
  /\ held.phase = "changed"
  /\ held.getter = "getStats"
  /\ Tk_isConnected(World)
  /\ held.b.val.chatCount = 1
  /\ held.a.val.chatCount = 2
  /\ getStats(World).chatCount = 1

\* The broadcasts of the turn whose trace is o.
Broadcasts(o) == {i \in 1..Len(o) : o[i].kind = "broadcast"}

\* In o, entry i is followed by one send of its event to each client of cs, in
\* order, and by no further send.
Delivered(o, i, cs) ==
  /\ i + Len(cs) <= Len(o)
  /\ \A k \in 1..Len(cs) :
       /\ o[i + k].kind = "send"
       /\ o[i + k].name = o[i].name
       /\ o[i + k].data = cs[k]
  /\ i + Len(cs) < Len(o) => o[i + Len(cs) + 1].kind # "send"

\* cs without the clients whose send() throws.
Remaining(cs) ==
  LET sound(client) == client \notin broken
  IN SelectSeq(cs, sound)

\* C22: no broadcast raises; the first broadcast of a turn calls send() once on
\* every attached client, after it exactly the clients whose send() threw are
\* detached, and every later broadcast calls send() once on each remaining
\* client only.
C22_BroadcastSurvivesThrowingClients ==
  [][ /\ \A i \in 1..Len(out') : out'[i].kind # "raise"
      /\ Broadcasts(out') # {} => clients' = Remaining(clients)
      /\ \A i \in Broadcasts(out') :
           Delivered(out', i, IF \A j \in Broadcasts(out') : i <= j
                              THEN clients
                              ELSE Remaining(clients)) ]_vars

\* Of three clients the second one's send() threw in the first of two
\* broadcasts of a turn.
C22_Witness ==
  /\ Cardinality(Broadcasts(out)) = 2
  /\ clients = <<"k1", "k3">>
  /\ "k2" \in broken
  /\ \E i \in 1..Len(out) : out[i].kind = "send" /\ out[i].data = "k2"

\* The trace o has an entry of that kind and name.
HasIn(o, kind, name) == \E i \in 1..Len(o) : o[i].kind = kind /\ o[i].name = name

\* The trace o has a broadcast of that name by that backend.
BroadcastBy(o, name, method) ==
  \E i \in 1..Len(o) :
    /\ o[i].kind = "broadcast"
    /\ o[i].name = name
    /\ o[i].data.method = method

\* C23: when the library raises disconnected or streamEnd while TikTokService
\* is connected, isConnected() becomes false and a disconnected notification of
\* the connector is broadcast; in that turn no connect of TikTokService is
\* invoked, no connection object is created and no attempt becomes pending,
\* and in every turn a connect of TikTokService is invoked, and a connection
\* object created, only within a connect call of the manager.
C23_AdapterEndsWithoutReconnect ==
  [][ /\ (tk.connected
           /\ (EventIn(out', "tiktok.disconnected") \/ EventIn(out', "tiktok.streamEnd")))
           => /\ ~tk'.connected
              /\ BroadcastBy(out', "disconnected", "connector")
              /\ ~HasIn(out', "call", "tiktok.connect")
              /\ tkRace' = tkRace
              /\ tk'.connection = 0
              /\ \A id \in ConnIds : conn'[id].st = "connecting" => conn[id].st = "connecting"
      /\ HasIn(out', "call", "tiktok.connect") => HasIn(out', "call", "connect")
      /\ (\E id \in ConnIds : conn[id].st = "unused" /\ conn'[id].st # "unused")
           => HasIn(out', "call", "tiktok.connect") ]_vars

\* The stream of a connected connector backend ended.
C23_Witness ==
  /\ EventIn(out, "tiktok.streamEnd")
  /\ ~Tk_isConnected(World)
  /\ Tk_getStats(World).connectedSince # "null"
  /\ OutHas("broadcast", "disconnected")
  /\ OutHas("broadcast", "streamEnd")

\* In the turn whose trace is o the race of the pending TikTokService.connect
\* was lost: the library's connect rejected, or the timer fired first.
RaceLostIn(o) ==
  /\ tkRace.conn # 0
  /\ \/ EventIn(o, "lib.connectTimeout")
     \/ EventIn(o, "lib.connectRejected") /\ o[1].data = tkRace.conn

\* In the turn whose trace is o the library's connect resolved for a connection
\* whose race was over.
SettledLateIn(o) == EventIn(o, "lib.connectResolved") /\ o[1].data # tkRace.conn

C25_AutoTriesConnectorFirst ==
  (attempt.valid /\ attempt.type = "auto")
  => /\ (attempt.eulerCalls > 0 \/ OutHas("call", "euler.connect"))
          => /\ attempt.connectorCalls = 1
             /\ attempt.connectorResult = "fail"
     /\ \A i, j \in 1..Len(out) :
          (OutIs(i, "call", "euler.connect") /\ OutIs(j, "call", "tiktok.connect")) => j < i
     /\ attempt.connectorResult = "ok"
          => /\ attempt.eulerCalls = 0
             /\ ~OutHas("call", "euler.connect")
             /\ attempt.result = "ok"
             /\ state.status = "connected"
             /\ state.activeMethod = "connector"
             /\ ~state.fallbackUsed

\* With the fallback enabled the connector succeeded in auto mode.
C25_Witness ==
  /\ attempt.valid
  /\ attempt.type = "auto"
  /\ fallbackEnabled
  /\ attempt.connectorResult = "ok"
  /\ attempt.result = "ok"
  /\ state.activeMethod = "connector"

\* C26: a connect call that passes validation invokes the disconnect of both
\* backends before it invokes a backend's connect; whenever a backend's connect
\* is invoked during the call, neither backend reports connected; and a
\* library disconnect() that throws during the teardown leaves the call going
\* on: status connecting, one backend connect invoked, nothing rejected.
C26_TeardownBeforeConnect ==
  /\ \A k \in 1..Len(out) :
       (IsBackendConnect(k) /\ OutHas("call", "connect"))
         => /\ \E i \in 1..(k - 1) : OutIs(i, "call", "tiktok.disconnect")
            /\ \E i \in 1..(k - 1) : OutIs(i, "call", "euler.disconnect")
  /\ ~attempt.connectedAtCall
  /\ (OutHas("call", "connect") /\ attempt.valid /\ OutHas("log", "warn"))
       => /\ attempt.result = "pending"
          /\ attempt.connectorCalls + attempt.eulerCalls = 1
          /\ state.status = "connecting"

\* A connect call that found the connector connected, whose library
\* disconnect() threw, and that went on to invoke EulerService.connect.
C26_Witness ==
  /\ OutHas("call", "connect")
  /\ OutHas("log", "warn")
  /\ OutHas("broadcast", "disconnected")
  /\ OutHas("call", "euler.connect")
  /\ attempt.result = "pending"

NoRoomIn(o) == EventIn(o, "euler.fetch") /\ ~o[1].data

\* In the turn whose trace is o the pending EulerService.connect failed: no
\* room was found, or the open timeout fired or the socket erred while the
\* promise of connectWebSocket was pending.
EulerFailedIn(o) ==
  \/ NoRoomIn(o)
  \/ /\ EventIn(o, "sock.timeout") \/ EventIn(o, "sock.error")
     /\ sock[o[1].data].promise = "pending"

\* C28: when EulerService.connect fails it rejects (the manager sees Euler
\* fail) and leaves the backend not connected, without a socket, without a
\* heartbeat timer and with zero-value stats; when no room was found no
\* WebSocket is created, and a WebSocket is created only in the turn in which
\* room resolution found a room.
C28_EulerFailureCleansUp ==
  [][ /\ EulerFailedIn(out')
           => /\ attempt.eulerResult = "none"
              /\ attempt'.eulerResult = "fail"
              /\ ~eu'.connected
              /\ eu'.ws = 0
              /\ ~eu'.heartbeatInterval
              /\ eu'.stats = DEFAULT_STATS
              /\ euFetch'.st # "pending"
      /\ NoRoomIn(out') => sock' = sock
      /\ (\E id \in SockIds : sock[id].readyState = "unused" /\ sock'[id].readyState # "unused")
           => (EventIn(out', "euler.fetch") /\ out'[1].data) ]_vars

\* The open timeout made EulerService.connect fail; its socket was closed.
C28_Witness ==
  /\ EventIn(out, "sock.timeout")
  /\ attempt.eulerResult = "fail"
  /\ sock[out[1].data].readyState = "aborting"
  /\ ~Eu_isConnected(World)
  /\ eu.ws = 0
  /\ Eu_getStats(World) = DEFAULT_STATS

\* The disconnected notifications in the trace o.
Disconnecteds(o) == {i \in 1..Len(o) : o[i].kind = "broadcast" /\ o[i].name = "disconnected"}

\* C29: when a socket's close event arrives while EulerService is connected,
\* the backend is not connected afterwards, the turn broadcasts exactly one
\* disconnected notification, of method euler, with the event's reason
\* ("Connection closed" when it has none), no heartbeat timer is left, and
\* no socket is created, no room resolution started and no connect of
\* EulerService invoked.
C29_CloseEndsEulerWithoutRetry ==
  [][ (eu.connected /\ EventIn(out', "sock.close"))
        => /\ ~eu'.connected
           /\ Cardinality(Disconnecteds(out')) = 1
           /\ \A i \in Disconnecteds(out') :
                /\ out'[i].data.method = "euler"
                /\ out'[i].data.reason = IF out'[1].data.reason = ""
                                         THEN "Connection closed"
                                         ELSE out'[1].data.reason
           /\ ~eu'.heartbeatInterval
           /\ eu'.ws = 0
           /\ \A id \in SockIds : sock'[id].readyState \notin {"connecting", "open"}
           /\ euFetch'.st # "pending"
           /\ ~HasIn(out', "call", "euler.connect") ]_vars

\* The socket of a connected Euler backend closed with a reason.
C29_Witness ==
  /\ EventIn(out, "sock.close")
  /\ out[1].data.reason = "going away"
  /\ BroadcastBy(out, "disconnected", "euler")
  /\ ~Eu_isConnected(World)
  /\ state.activeMethod = "euler"
  /\ state.status = "connected"

\* In the step to the primed state a control message was handled as the end of
\* the stream: streamEnd and disconnected are broadcast and the backend has
\* disconnected itself.
HandledAsEnd ==
  /\ HasIn(out', "broadcast", "streamEnd")
  /\ BroadcastBy(out', "disconnected", "euler")
  /\ ~eu'.connected
  /\ eu'.ws = 0

\* In that step it was passed over: nothing is broadcast and the backend, its
\* stats included, is as it was.
PassedOver == Broadcasts(out') = {} /\ eu' = eu

\* C30 (amended): a control message is handled as the end of the stream when
\* its action code is 3, where a message without an action code is read by
\* its status, and one with neither as 3; with any other code it is passed
\* over.
C30_ControlEndsStream ==
  [][ EventIn(out', "euler.streamEnd")
        => LET data == out'[1].data
               code == IF data.action # 0 THEN data.action
                       ELSE IF data.status # 0 THEN data.status
                       ELSE 3
           IN IF code = 3 THEN HandledAsEnd ELSE PassedOver ]_vars

\* A control message with neither an action code nor a status ended a
\* connected Euler backend.
C30_Witness ==
  /\ EventIn(out, "euler.streamEnd")
  /\ out[1].data.action = 0
  /\ out[1].data.status = 0
  /\ OutHas("broadcast", "streamEnd")
  /\ ~Eu_isConnected(World)
  /\ state.status = "connected"

\* C30 (as stated): a control message is handled as the end of the stream
\* exactly when the action code it carries is 3, and passed over otherwise.
C30_ControlEndsStream_AsStated ==
  [][ EventIn(out', "euler.streamEnd")
        => IF out'[1].data.action = 3 THEN HandledAsEnd ELSE PassedOver ]_vars

\* The disconnected notifications of EulerService in the trace o.
EulerDisconnecteds(o) == {i \in Disconnecteds(o) : o[i].data.method = "euler"}

\* The turn whose trace is o is a disconnect() of the manager, which calls
\* EulerService.disconnect() and nothing else of EulerService.
DisconnectIn(o) == Len(o) > 0 /\ o[1].kind = "call" /\ o[1].name = "disconnect"

\* C31: EulerService.disconnect() on a connected backend leaves no heartbeat
\* timer, closes the socket and forgets it, resets stats to the default
\* values, makes isConnected() false and broadcasts disconnected exactly once;
\* a disconnect() on a backend that is not connected and holds no socket, as
\* it is after a disconnect(), changes nothing of the backend and broadcasts no
\* disconnected of its own.
C31_EulerDisconnectOnceOnly ==
  [][ /\ (eu.connected /\ HasIn(out', "call", "euler.disconnect"))
           => Cardinality(EulerDisconnecteds(out')) = 1
      /\ (eu.connected /\ DisconnectIn(out'))
           => /\ ~eu'.connected
              /\ ~eu'.heartbeatInterval
              /\ eu'.ws = 0
              /\ eu.ws # 0 => sock'[eu.ws].readyState \notin {"connecting", "open"}
              /\ eu'.stats = Eu_defaultStats
              /\ eu'.currentUniqueId = NULL
      /\ (~eu.connected /\ eu.ws = 0 /\ DisconnectIn(out'))
           => /\ eu' = eu
              /\ sock' = sock
              /\ euFetch' = euFetch
              /\ EulerDisconnecteds(out') = {} ]_vars

\* A disconnect() of the manager ended a connected Euler backend whose socket
\* was open.
C31_Witness ==
  /\ DisconnectIn(out)
  /\ Cardinality(EulerDisconnecteds(out)) = 1
  /\ ~Eu_isConnected(World)
  /\ eu.ws = 0
  /\ Eu_getStats(World) = DEFAULT_STATS
  /\ \E id \in SockIds : sock[id].readyState = "closing"

\* C32: a heartbeat timer runs only while EulerService holds a socket; it is
\* started by the socket's open event and by nothing else, so it is gone in
\* the very turn in which the socket is let go; and a tick of the timer
\* raises nothing, sends its frame only on a held socket that is open, and
\* changes nothing else.
C32_HeartbeatOnlyWithSocket ==
  [][ /\ eu'.heartbeatInterval => eu'.ws # 0
      /\ EventIn(out', "sock.open") => (eu'.heartbeatInterval /\ eu'.ws = out'[1].data)
      /\ (~eu.heartbeatInterval /\ eu'.heartbeatInterval) => EventIn(out', "sock.open")
      /\ (eu.ws # 0 /\ eu'.ws # eu.ws) => ~eu'.heartbeatInterval
      /\ EventIn(out', "euler.heartbeat")
           => /\ \A i \in 1..Len(out') : out'[i].kind # "raise"
              /\ HasIn(out', "frame", "hb")
                   => (eu.ws # 0 /\ sock[eu.ws].readyState = "open")
              /\ UNCHANGED <<state, tk, eu, sock, conn, connectLock, call>> ]_vars

\* The timer ticks while the socket held has failed and its close event is
\* still to come: no frame is sent.
C32_Witness ==
  /\ EventIn(out, "euler.heartbeat")
  /\ ~OutHas("frame", "hb")
  /\ eu.heartbeatInterval
  /\ eu.ws # 0
  /\ sock[eu.ws].readyState = "closing"

RecognizedTypes ==
  {"WebcastChatMessage", "chat", "WebcastGiftMessage", "gift", "WebcastLikeMessage", "like",
   "WebcastMemberMessage", "member", "WebcastSocialMessage", "social",
   "WebcastRoomUserSeqMessage", "roomUser", "WebcastControlMessage", "streamEnd"}

\* The message type a frame's object names: its type, else its method, else
\* its msg_type.
NamedType(obj) ==
  IF obj.type # "" THEN obj.type ELSE IF obj.method # "" THEN obj.method ELSE obj.msg_type

\* A raw frame that is no JSON text, whose JSON is no object, or whose object
\* names no recognized message type.
Unusable(raw) ==
  \/ raw.form \notin {"string", "buffer"}
  \/ raw.json.kind # "object"
  \/ NamedType(raw.json.obj) \notin RecognizedTypes

\* C33: a frame that is not valid JSON, does not decode to an object, or names
\* a message type that is not recognized changes no stats field (and nothing
\* else of the backend), broadcasts nothing and leaves EulerService connected.
C33_UnusableFramesIgnored ==
  [][ (EventIn(out', "euler.frame") /\ Unusable(out'[1].data))
        => /\ eu' = eu
           /\ Broadcasts(out') = {}
           /\ Len(out') = 1
           /\ UNCHANGED <<state, tk, sock, conn, clients>> ]_vars

\* A connected Euler backend that has counted a chat message was sent text that
\* is no JSON.
C33_Witness ==
  /\ EventIn(out, "euler.frame")
  /\ out[1].data.json.kind = "malformed"
  /\ Eu_isConnected(World)
  /\ Eu_getStats(World).chatCount = 1

\* The message object of the frame that arrived in the turn whose trace is o.
FrameObject(o) == IF o[1].name = "euler.frame" THEN o[1].data.json.obj ELSE o[1].data

\* The turn whose trace is o took a frame of the Euler socket that carries a
\* message object.
FrameIn(o) ==
  /\ IsEvent(o)
  /\ \/ o[1].name = "euler.frame"
     \/ \E type \in RecognizedTypes : o[1].name = "euler." \o type

\* That frame is a control message whose action code (its action, else its
\* status, else 3) is 3.
StreamEndIn(o) ==
  LET data == FrameObject(o)
  IN /\ NamedType(data) \in {"WebcastControlMessage", "streamEnd"}
     /\ (IF data.action # 0 THEN data.action
         ELSE IF data.status # 0 THEN data.status ELSE 3) = 3

C35_StatusAgreesWithBackends ==
  (InFlight = {} /\ ~connectLock)
    => ((getState(World).status = "connected") <=> isConnected(World))

\* C36: status connected implies that uniqueId, activeMethod and
\* connectedSince are non-null; any other status implies that activeMethod
\* and connectedSince are null; fallbackUsed implies type auto and
\* activeMethod euler.
C36_StateFieldsCoherent ==
  /\ state.status = "connected"
       => /\ state.uniqueId # NULL
          /\ state.activeMethod # "null"
          /\ state.connectedSince # "null"
  /\ state.status \in {"disconnected", "connecting", "failed"}
       => /\ state.activeMethod = "null"
          /\ state.connectedSince = "null"
  /\ state.fallbackUsed => (state.type = "auto" /\ state.activeMethod = "euler")

\* The socket whose close, open or error event the turn with trace o handled
\* (0: the turn handled no such event).
SocketOfEvent(o) ==
  IF ~IsEvent(o) THEN 0
  ELSE IF o[1].name = "sock.close" THEN o[1].data.id
  ELSE IF o[1].name \in {"sock.open", "sock.error"} THEN o[1].data
  ELSE 0

\* C37: an event of a socket that EulerService has let go changes nothing of
\* what a later connection attempt has set up: the room resolution stays
\* pending, the socket held stays held and as it was, stats, handle and
\* heartbeat are unchanged and isConnected() keeps its value.
C37_DiscardedSocketIsInert ==
  [][ (SocketOfEvent(out') # 0 /\ SocketOfEvent(out') # eu.ws)
        => /\ euFetch' = euFetch
           /\ eu'.abortController = eu.abortController
           /\ eu'.ws = eu.ws
           /\ eu.ws # 0 => sock'[eu.ws] = sock[eu.ws]
           /\ eu'.stats = eu.stats
           /\ eu'.currentUniqueId = eu.currentUniqueId
           /\ eu'.heartbeatInterval = eu.heartbeatInterval
           /\ eu'.connected = eu.connected ]_vars

\* C38: the manager's lock is held exactly while a connect call is in flight
\* and the lock of TikTokService exactly while its connect awaits the race
\* inside such a call; so a connect call that has ended, however it ended, has
\* released the lock, and a connect issued while no call is in flight is not
\* rejected, by either lock, as already in progress.
C38_LockOnlyWhileConnecting ==
  [][ /\ connectLock' <=> (InFlight' # {})
      /\ tk'.connectLock <=> (tkRace'.conn # 0)
      /\ tk'.connectLock => connectLock'
      /\ Finished' => (~connectLock' /\ ~tk'.connectLock)
      /\ (InFlight = {} /\ OutHas("call", "connect")')
           => /\ ~OutHas("return", "connectRejectedByLock")'
              /\ attempt'.result = "rejected"
                   => ~Contains(attempt'.error, <<"Connection already in progress">>) ]_vars

\* A second connect call took both locks after the first one had ended and the
\* connection of the first was closed.
C38_Witness ==
  /\ OutHas("call", "connect")
  /\ ~OutHas("return", "connectRejectedByLock")
  /\ attempt.n = 2
  /\ attempt.result = "pending"
  /\ connectLock
  /\ tk.connectLock
  /\ state.status = "connecting"
  /\ \E id \in ConnIds : conn[id].st = "closed"

\* C39: for each connection object of the connector backend at most one
\* disconnected notification is broadcast, whatever streamEnd callbacks,
\* disconnected callbacks and disconnect() calls end it: the notifications
\* broadcast for it before a turn and those of the turn are never more than
\* one.
C39_OneDisconnectedPerConnection ==
  [][ \A id \in ConnIds :
        notified[id] + (IF ConnectionOf(out') = id
                        THEN Cardinality(ConnectorDisconnecteds(out'))
                        ELSE 0) <= 1 ]_vars

-----------------------------------------------------------------------------
(* Turns of the self-reconnecting TikTokService *)

\* The WebcastPushConnection objects the service creates
MaxLegacyConns == 7

\* The calls of connect and disconnect the user makes
MaxUserCalls == 3

LegacyUnchanged ==
  UNCHANGED <<state, connectLock, abortController, call, tk, conn, tkRace, eu, sock,
              euFetch, out, attempt, fallbackEnabled, san, clients, broken, held,
              notified>>

LegacyThrowable(libThrows) ==
  libThrows => /\ legacy.connection # 0
               /\ legacy.conns[legacy.connection].st \in {"live", "ending"}

\* The user calls connect(uniqueId).
LegacyConnect(valid, libThrows) ==
  /\ Len(legacy.conns) < MaxLegacyConns
  /\ legacy.userCalls < MaxUserCalls
  /\ LegacyThrowable(libThrows)
  /\ legacy' = [Lg_connect(Lg_turn(legacy, "connect"), valid, libThrows)
                  EXCEPT !.automatic = 0, !.userCalls = @ + 1]
  /\ LegacyUnchanged

\* The user calls disconnect().
LegacyDisconnect(libThrows) ==
  /\ legacy.userCalls < MaxUserCalls
  /\ LegacyThrowable(libThrows)
  /\ legacy' = [Lg_disconnect(Lg_turn(legacy, "disconnect"), libThrows)
                  EXCEPT !.userCalls = @ + 1]
  /\ LegacyUnchanged

\* Time passes: the cooldown since the last connection attempt is over.
LegacyCooldownOver ==
  /\ legacy.cooling
  /\ legacy' = [Lg_turn(legacy, "cooldownOver") EXCEPT !.cooling = FALSE]
  /\ LegacyUnchanged

\* connection.connect() of connection id settles, and the connect call that
\* awaits it goes on.
LegacySettles(id, ok) ==
  /\ id \in 1..Len(legacy.conns)
  /\ legacy.conns[id].st = "connecting"
  /\ legacy' = Lg_connectSettled(
                 [Lg_turn(legacy, "settled") EXCEPT
                    !.conns[id].st = IF ok THEN "live" ELSE "closed"], ok)
  /\ LegacyUnchanged

\* Connection id reports the end of the stream.
LegacyStreamEnd(id) ==
  /\ id \in 1..Len(legacy.conns)
  /\ legacy.conns[id].st = "live"
  /\ legacy' = Lg_onStreamEnd([Lg_turn(legacy, "streamEnd") EXCEPT
                                 !.conns[id].st = "ending"])
  /\ LegacyUnchanged

\* Connection id reports that it lost its connection.
LegacyDisconnected(id) ==
  /\ id \in 1..Len(legacy.conns)
  /\ legacy.conns[id].st \in {"live", "ending"}
  /\ legacy' = Lg_onDisconnected([Lg_turn(legacy, "disconnected") EXCEPT
                                    !.conns[id].st = "closed"])
  /\ LegacyUnchanged

\* A reconnect timer fires: the one reconnectTimer refers to, one whose handle
\* was overwritten, or one that was pending during a disconnect() call.  A
\* timer runs for config.connection.reconnectDelayMs, which is at least
\* cooldownMs: it fires after the cooldown of the attempts made before it was set.
LegacyTimer(which, libThrows) ==
  /\ Len(legacy.conns) < MaxLegacyConns
  /\ ~legacy.cooling
  /\ LegacyThrowable(libThrows)
  /\ CASE which = "tracked" ->
            /\ legacy.reconnectTimer = "pending"
            /\ legacy' = Lg_reconnect([Lg_turn(legacy, "timer") EXCEPT
                                         !.reconnectTimer = "fired"], libThrows)
       [] which = "stray" ->
            /\ legacy.strays > 0
            /\ legacy' = Lg_reconnect([Lg_turn(legacy, "timer") EXCEPT
                                         !.strays = @ - 1], libThrows)
       [] which = "survivor" ->
            /\ legacy.survivors > 0
            /\ legacy' = Lg_reconnect([Lg_turn(legacy, "timerAfterDisconnect") EXCEPT
                                         !.survivors = @ - 1], libThrows)
  /\ LegacyUnchanged

NextLegacy ==
  \/ \E valid \in BOOLEAN, libThrows \in BOOLEAN : LegacyConnect(valid, libThrows)
  \/ \E libThrows \in BOOLEAN : LegacyDisconnect(libThrows)
  \/ LegacyCooldownOver
  \/ \E id \in 1..MaxLegacyConns, ok \in BOOLEAN : LegacySettles(id, ok)
  \/ \E id \in 1..MaxLegacyConns : LegacyStreamEnd(id)
  \/ \E id \in 1..MaxLegacyConns : LegacyDisconnected(id)
  \/ \E which \in {"tracked", "stray", "survivor"}, libThrows \in BOOLEAN :
       LegacyTimer(which, libThrows)

SpecLegacy == Init /\ [][NextLegacy]_vars

\* The first half of C40: the connections opened by reconnect timers since the
\* user last called connect number at most config.connection.maxReconnectAttempts.
ReconnectsBounded == legacy.automatic <= maxReconnectAttempts

\* The second half of C40: no reconnect timer that was pending during a
\* disconnect() call fires afterwards.
NoTimerAfterDisconnect == legacy.turn # "timerAfterDisconnect"

\* C40: in the self-reconnecting TikTokService, the connections opened by
\* reconnect timers since the user last called connect never number more than
\* config.connection.maxReconnectAttempts, and no reconnect timer that was
\* pending during a disconnect() call fires afterwards.
C40_ReconnectsBoundedAndCancelled == ReconnectsBounded /\ NoTimerAfterDisconnect

====
